---------------------------- MODULE Spec2Model ----------------------------
(***************************************************************************)
(* Model of the storefront copy pipeline of shopify-template-status:       *)
(*   footer_content_status.py, home_cotent_status.py,                      *)
(*   product_content_status.py.                                            *)
(*                                                                         *)
(* Text is a sequence of lexemes (strings).  A lexeme is one character     *)
(* ("{", "<", a blank, a quote) or one word whose inner characters no      *)
(* operation of the program looks at (a code fence, "json", a field name, a       *)
(* placeholder token, a piece of copy).                                    *)
(***************************************************************************)
EXTENDS Integers, Sequences, FiniteSets, TLC

(***************************************************************************)
(* Lexemes the code looks for.                                             *)
(***************************************************************************)
\* The code-fence delimiter (three backquotes) is one lexeme.
FENCE == "[fence]"
DQ == "\""
SQ == "'"
BSL == "\\"
Whitespace == {" ", "\n"}

Min(a, b) == IF a < b THEN a ELSE b

(***************************************************************************)
(* str.strip(): leading and trailing whitespace removed.                   *)
(***************************************************************************)
RECURSIVE LStrip(_)
LStrip(s) ==
    IF s # <<>> /\ Head(s) \in Whitespace THEN LStrip(Tail(s)) ELSE s

RECURSIVE RStrip(_)
RStrip(s) ==
    IF s # <<>> /\ s[Len(s)] \in Whitespace
    THEN RStrip(SubSeq(s, 1, Len(s) - 1))
    ELSE s

Strip(s) == RStrip(LStrip(s))

(***************************************************************************)
(* str.find / "x in data" / str.replace on lexeme sequences.               *)
(***************************************************************************)
StartsAt(s, t, i) ==
    /\ i >= 1
    /\ i + Len(t) - 1 <= Len(s)
    /\ \A k \in 1..Len(t) : s[i + k - 1] = t[k]

Contains(s, t) == \E i \in 1..(Len(s) + 1) : StartsAt(s, t, i)

\* str.replace(old, new) for a non-empty old: the occurrences are found
\* scanning left to right and do not overlap.
RECURSIVE ReplaceFrom(_, _, _, _)
ReplaceFrom(s, old, new, i) ==
    IF i > Len(s) THEN <<>>
    ELSE IF StartsAt(s, old, i)
         THEN new \o ReplaceFrom(s, old, new, i + Len(old))
         ELSE <<s[i]>> \o ReplaceFrom(s, old, new, i + 1)

\* str.replace(old, new) with an empty old puts new before every character
\* and at the end.
RECURSIVE Interleave(_, _, _)
Interleave(s, new, i) ==
    IF i > Len(s) THEN new
    ELSE new \o <<s[i]>> \o Interleave(s, new, i + 1)

\* str.replace(old, new, 1): the first occurrence only.
RECURSIVE ReplaceFirstFrom(_, _, _, _)
ReplaceFirstFrom(s, old, new, i) ==
    IF i > Len(s) THEN <<>>
    ELSE IF StartsAt(s, old, i)
         THEN new \o SubSeq(s, i + Len(old), Len(s))
         ELSE <<s[i]>> \o ReplaceFirstFrom(s, old, new, i + 1)

StrReplaceFirst(s, old, new) == ReplaceFirstFrom(s, old, new, 1)

StrReplace(s, old, new) ==
    IF old = <<>> THEN Interleave(s, new, 1) ELSE ReplaceFrom(s, old, new, 1)

(***************************************************************************)
(* The regular expressions of clean_json_response, clean_html_response and *)
(* validate_html_format, computed as re.sub / re.findall compute them.     *)
(***************************************************************************)
\* The end of the run of whitespace that starts at i (\s* is greedy).
RECURSIVE SkipWs(_, _)
SkipWs(s, i) ==
    IF i <= Len(s) /\ s[i] \in Whitespace THEN SkipWs(s, i + 1) ELSE i

\* re.sub(r'FENCE<tag>\s*', '', s): every fence directly followed by the
\* language tag is removed, anywhere in s, with the whitespace after it.
RECURSIVE SubFenceTag(_, _, _)
SubFenceTag(s, tag, i) ==
    IF i > Len(s) THEN <<>>
    ELSE IF StartsAt(s, <<FENCE, tag>>, i)
         THEN SubFenceTag(s, tag, SkipWs(s, i + 2))
         ELSE <<s[i]>> \o SubFenceTag(s, tag, i + 1)

\* re.sub(r'FENCE\s*$', '', s): a fence is removed only when nothing but
\* whitespace follows it up to the end of s.
RECURSIVE SubFenceEnd(_, _)
SubFenceEnd(s, i) ==
    IF i > Len(s) THEN <<>>
    ELSE IF s[i] = FENCE /\ SkipWs(s, i + 1) > Len(s)
         THEN <<>>
         ELSE <<s[i]>> \o SubFenceEnd(s, i + 1)

\* The number of SQ lexemes in s from position i on.
RECURSIVE CountSQ(_, _)
CountSQ(s, i) ==
    IF i > Len(s) THEN 0
    ELSE (IF s[i] = SQ THEN 1 ELSE 0) + CountSQ(s, i + 1)

\* re.sub(r"(?<!\\)'(?=([^']*'[^']*')*[^']*$)", "\\'", s): a single quote
\* that no backslash precedes and that an even number of single quotes
\* follows gets a backslash put before it.
RECURSIVE EscapeSingleQuotes(_, _)
EscapeSingleQuotes(s, i) ==
    IF i > Len(s) THEN <<>>
    ELSE IF /\ s[i] = SQ
            /\ ~(i > 1 /\ s[i - 1] = BSL)
            /\ CountSQ(s, i + 1) % 2 = 0
         THEN <<BSL, SQ>> \o EscapeSingleQuotes(s, i + 1)
         ELSE <<s[i]>> \o EscapeSingleQuotes(s, i + 1)

\* The string literal that the source text of the last replace line
\* denotes.  The quotation marks of its first argument are plain ASCII in
\* the file, so three quote characters in a row open a triple-quoted
\* literal that runs up to the next three: the line is the single call
\* replace(<this literal>, "'").
QuoteLineLiteral == <<",", " ", DQ, SQ, DQ, ")", ".", "replace", "(">>

clean_json_response_plain(response_text) ==
    LET t1 == SubFenceTag(response_text, "json", 1)
        t2 == SubFenceEnd(t1, 1)
        t3 == StrReplace(StrReplace(t2, <<DQ>>, <<DQ>>), <<DQ>>, <<DQ>>)
        t4 == StrReplace(t3, QuoteLineLiteral, <<SQ>>)
    IN  Strip(t4)

clean_json_response_product(response_text) ==
    LET t1 == SubFenceTag(response_text, "json", 1)
        t2 == SubFenceEnd(t1, 1)
        t3 == StrReplace(StrReplace(t2, <<DQ>>, <<DQ>>), <<DQ>>, <<DQ>>)
        t4 == EscapeSingleQuotes(t3, 1)
        t5 == StrReplace(t4, QuoteLineLiteral, <<SQ>>)
    IN  Strip(t5)

clean_json_response(pg, response_text) ==
    IF pg = "product"
    THEN clean_json_response_product(response_text)
    ELSE clean_json_response_plain(response_text)

\* clean_html_response(response_text), defined by the home page script.
clean_html_response(response_text) ==
    LET t1 == SubFenceTag(response_text, "html", 1)
        t2 == SubFenceEnd(t1, 1)
    IN  Strip(t2)

\* len(re.findall(r'<[^>]+>', s)): a tag is "<", at least one lexeme other
\* than ">", then the first ">" that follows; matches do not overlap.
RECURSIVE NextGt(_, _)
NextGt(s, i) ==
    IF i > Len(s) THEN 0 ELSE IF s[i] = ">" THEN i ELSE NextGt(s, i + 1)

RECURSIVE CountTagsFrom(_, _)
CountTagsFrom(s, i) ==
    IF i > Len(s) THEN 0
    ELSE IF /\ s[i] = "<"
            /\ i + 1 <= Len(s)
            /\ s[i + 1] # ">"
            /\ NextGt(s, i + 2) # 0
         THEN 1 + CountTagsFrom(s, NextGt(s, i + 2) + 1)
         ELSE CountTagsFrom(s, i + 1)

CountTags(s) == CountTagsFrom(s, 1)

\* expected_format is None where the caller passes none.
NoFormat == <<"None">>

FormatHasLt(expected_format) ==
    /\ expected_format # NoFormat
    /\ expected_format # <<>>
    /\ Contains(expected_format, <<"<">>)

\* A check that passes every text.
validate_any(text, expected_format) == TRUE

\* A check that wants a tag in the text whatever the example.
validate_tagged(text, expected_format) == CountTags(text) >= 1

validate_html_format(text, expected_format) ==
    IF FormatHasLt(expected_format)
    THEN CountTags(expected_format) <= CountTags(text)
    ELSE TRUE

(***************************************************************************)
(* json.loads on lexeme sequences.  The grammar kept is the one the        *)
(* responses of the prompts use: an object of members "key": value, a      *)
(* value being a string or an object; whitespace is allowed between the    *)
(* lexemes, a trailing comma, an unquoted word, an invalid escape, a raw   *)
(* line break in a string or text after the value make the parse fail.     *)
(* A parsed value is [t, v, m]: t = "str" with the characters v, t = "obj" *)
(* with the members m (key -> parsed value), t = "fail" for an exception.  *)
(***************************************************************************)
JStr(v) == [t |-> "str", v |-> v, m |-> <<>>]
JObj(m) == [t |-> "obj", v |-> <<>>, m |-> m]
JFail == [t |-> "fail", v |-> <<>>, m |-> <<>>]
JsonEscapes == {DQ, BSL, "/", "n", "t"}

\* The characters of the string whose opening quote is before position j:
\* [ok, v, nxt], nxt the position after the closing quote.
RECURSIVE ScanString(_, _, _)
ScanString(s, j, acc) ==
    IF j > Len(s) THEN [ok |-> FALSE, v |-> <<>>, nxt |-> j]
    ELSE IF s[j] = DQ THEN [ok |-> TRUE, v |-> acc, nxt |-> j + 1]
    ELSE IF s[j] = "\n" THEN [ok |-> FALSE, v |-> <<>>, nxt |-> j]
    ELSE IF s[j] = BSL
         THEN IF j + 1 <= Len(s) /\ s[j + 1] \in JsonEscapes
              THEN ScanString(s, j + 2, Append(acc, s[j + 1]))
              ELSE [ok |-> FALSE, v |-> <<>>, nxt |-> j]
         ELSE ScanString(s, j + 1, Append(acc, s[j]))

RECURSIVE ParseValue(_, _)
RECURSIVE ParseMembers(_, _, _)

\* [val, nxt]: the value that starts at or after position i.
ParseValue(s, i) ==
    LET p == SkipWs(s, i) IN
    IF p > Len(s) THEN [val |-> JFail, nxt |-> p]
    ELSE IF s[p] = DQ
         THEN LET r == ScanString(s, p + 1, <<>>) IN
              IF r.ok THEN [val |-> JStr(r.v), nxt |-> r.nxt]
              ELSE [val |-> JFail, nxt |-> p]
    ELSE IF s[p] = "{"
         THEN LET q == SkipWs(s, p + 1) IN
              IF q <= Len(s) /\ s[q] = "}"
              THEN [val |-> JObj(<<>>), nxt |-> q + 1]
              ELSE ParseMembers(s, q, <<>>)
    ELSE [val |-> JFail, nxt |-> p]

\* The members from position i on, up to the closing brace; a repeated key
\* keeps its last value, as a Python dict does.
ParseMembers(s, i, acc) ==
    LET p == SkipWs(s, i) IN
    IF p > Len(s) \/ s[p] # DQ THEN [val |-> JFail, nxt |-> p]
    ELSE
    LET k == ScanString(s, p + 1, <<>>) IN
    IF ~k.ok THEN [val |-> JFail, nxt |-> p]
    ELSE
    LET c == SkipWs(s, k.nxt) IN
    IF c > Len(s) \/ s[c] # ":" THEN [val |-> JFail, nxt |-> c]
    ELSE
    LET w == ParseValue(s, c + 1) IN
    IF w.val.t = "fail" THEN [val |-> JFail, nxt |-> w.nxt]
    ELSE
    LET e == SkipWs(s, w.nxt)
        m == [x \in (DOMAIN acc) \cup {k.v} |->
                 IF x = k.v THEN w.val ELSE acc[x]]
    IN
    IF e > Len(s) THEN [val |-> JFail, nxt |-> e]
    ELSE IF s[e] = "}" THEN [val |-> JObj(m), nxt |-> e + 1]
    ELSE IF s[e] = "," THEN ParseMembers(s, e + 1, m)
    ELSE [val |-> JFail, nxt |-> e]

json_loads(s) ==
    LET r == ParseValue(s, 1) IN
    IF r.val.t # "fail" /\ SkipWs(s, r.nxt) > Len(s) THEN r.val ELSE JFail

\* obj[k1][k2]...: the string at the key path, or the exception the
\* subscript raises.
RECURSIVE Subscript(_, _)
Subscript(val, path) ==
    IF path = <<>> THEN [exc |-> "none", val |-> val]
    ELSE IF val.t # "obj" THEN [exc |-> "TypeError", val |-> JFail]
    ELSE IF <<Head(path)>> \notin DOMAIN val.m
         THEN [exc |-> "KeyError", val |-> JFail]
    ELSE Subscript(val.m[<<Head(path)>>], Tail(path))


(***************************************************************************)
(* The prompt catalog as the three scripts spell it out: the translation   *)
(* steps (literal text, the tokens it is written to) and the generated     *)
(* content units (the generator called, the expected_format passed, the    *)
(* context labels of the fix_json_with_gpt calls, and for every            *)
(* replace_in_file call the subscript path read and the token replaced; a  *)
(* unit written from the response text itself has the empty path).         *)
(* Characters outside ASCII in the literal texts are written "?".          *)
(***************************************************************************)
FooterTranslations ==
    <<
      [text |-> "* We Promise not to use your email for Spam! You can unsubscribe at any time.",
       tokens |-> <<"NEW_NEWSLETTER_SMALL_TEXT_TRANSLATED">>],
      [text |-> "Information",
       tokens |-> <<"NEW_FOOTER_INFO_HEADING_TRANSLATED">>],
      [text |-> "Shop",
       tokens |-> <<"NEW_FOOTER_SHOP_HEADING_TRANSLATED">>],
      [text |-> "Subscribe to our emails",
       tokens |-> <<"NEW_FOOTER_NEWSLETTER_HEADING_TRANSLATED">>] >>

FooterUnits ==
    <<
      [name |-> "trust_badges", gen |-> "prompt_gpt", shape |-> "json",
       expected |-> NoFormat,
       contexts |-> <<"trust_badges">>,
       fields |-> <<
           [key |-> <<"badge_1", "title">>, token |-> "NEW_TRUST_BADGE_1_TITLE_GENERATED"],
           [key |-> <<"badge_1", "text">>, token |-> "NEW_TRUST_BADGE_1_TEXT_GENERATED"],
           [key |-> <<"badge_2", "title">>, token |-> "NEW_TRUST_BADGE_2_TITLE_GENERATED"],
           [key |-> <<"badge_2", "text">>, token |-> "NEW_TRUST_BADGE_2_TEXT_GENERATED"],
           [key |-> <<"badge_3", "title">>, token |-> "NEW_TRUST_BADGE_3_TITLE_GENERATED"],
           [key |-> <<"badge_3", "text">>, token |-> "NEW_TRUST_BADGE_3_TEXT_GENERATED"],
           [key |-> <<"badge_4", "title">>, token |-> "NEW_TRUST_BADGE_4_TITLE_GENERATED"],
           [key |-> <<"badge_4", "text">>, token |-> "NEW_TRUST_BADGE_4_TEXT_GENERATED"] >>],
      [name |-> "scroll_footer_texts", gen |-> "prompt_gpt", shape |-> "json",
       expected |-> NoFormat,
       contexts |-> <<"scroll_footer_texts">>,
       fields |-> <<
           [key |-> <<"text_1">>, token |-> "NEW_SCROLL_FOOTER_TEXT_1_GENERATED"],
           [key |-> <<"outline_1">>, token |-> "NEW_SCROLL_FOOTER_OUTLINE_1_GENERATED"],
           [key |-> <<"text_2">>, token |-> "NEW_SCROLL_FOOTER_TEXT_2_GENERATED"],
           [key |-> <<"outline_2">>, token |-> "NEW_SCROLL_FOOTER_OUTLINE_2_GENERATED"],
           [key |-> <<"text_3">>, token |-> "NEW_SCROLL_FOOTER_TEXT_3_GENERATED"],
           [key |-> <<"outline_3">>, token |-> "NEW_SCROLL_FOOTER_OUTLINE_3_GENERATED"] >>],
      [name |-> "newsletter", gen |-> "prompt_gpt", shape |-> "json",
       expected |-> NoFormat,
       contexts |-> <<"newsletter">>,
       fields |-> <<
           [key |-> <<"heading">>, token |-> "NEW_NEWSLETTER_HEADING_GENERATED"],
           [key |-> <<"text">>, token |-> "NEW_NEWSLETTER_TEXT_GENERATED"] >>],
      [name |-> "footer_contact", gen |-> "prompt_gpt", shape |-> "json",
       expected |-> NoFormat,
       contexts |-> <<"footer_contact">>,
       fields |-> <<
           [key |-> <<"heading">>, token |-> "NEW_FOOTER_CONTACT_HEADING_GENERATED"],
           [key |-> <<"subtext">>, token |-> "NEW_FOOTER_CONTACT_SUBTEXT_GENERATED"] >>] >>

HomeTranslations ==
    <<
      [text |-> "Exclusive Holiday Bundles",
       tokens |-> <<"NEW_HERO_CAPTION_TRANSLATED">>],
      [text |-> "Save Up To 55%",
       tokens |-> <<"NEW_HERO_BUTTON_TRANSLATED">>],
      [text |-> "FEATURED IN",
       tokens |-> <<"NEW_FEATURED_IN_TRANSLATED">>],
      [text |-> "Look At How Others Are Loving Their Product!",
       tokens |-> <<"NEW_CUSTOMER_LOVE_HEADING_TRANSLATED">>],
      [text |-> "Real Reviews From Real People",
       tokens |-> <<"NEW_REAL_REVIEWS_SUBHEADING_TRANSLATED">>],
      [text |-> "CLAIM OFFER",
       tokens |-> <<"NEW_CLAIM_OFFER_BUTTON_TRANSLATED">>],
      [text |-> "Lookbook",
       tokens |-> <<"NEW_LOOKBOOK_HEADING_TRANSLATED">>],
      [text |-> "<p>Optional description for this section</p>",
       tokens |-> <<"NEW_LOOKBOOK_DESCRIPTION_TRANSLATED">>],
      [text |-> "Heading",
       tokens |-> <<"NEW_LOOKBOOK_POINT_1_TITLE_TRANSLATED", "NEW_LOOKBOOK_POINT_2_TITLE_TRANSLATED">>],
      [text |-> "Some optional description for this point",
       tokens |-> <<"NEW_LOOKBOOK_POINT_1_DESC_TRANSLATED", "NEW_LOOKBOOK_POINT_2_DESC_TRANSLATED">>],
      [text |-> "View product",
       tokens |-> <<"NEW_VIEW_PRODUCT_BUTTON_TRANSLATED">>],
      [text |-> "button",
       tokens |-> <<"NEW_BUTTON_TEXT_TRANSLATED">>],
      [text |-> "Size Chart",
       tokens |-> <<"NEW_SIZE_CHART_TRANSLATED">>],
      [text |-> "1 Pack",
       tokens |-> <<"NEW_PACK_1_LABEL_TRANSLATED">>],
      [text |-> "3 Pack",
       tokens |-> <<"NEW_PACK_3_LABEL_TRANSLATED">>],
      [text |-> "4 Pack",
       tokens |-> <<"NEW_PACK_4_LABEL_TRANSLATED">>],
      [text |-> "5 Pack",
       tokens |-> <<"NEW_PACK_5_LABEL_TRANSLATED">>],
      [text |-> "Offer",
       tokens |-> <<"NEW_OFFER_LABEL_TRANSLATED">>],
      [text |-> "Most Popular",
       tokens |-> <<"NEW_MOST_POPULAR_TRANSLATED">>],
      [text |-> "Save (%)",
       tokens |-> <<"NEW_SAVE_TEXT_TRANSLATED">>],
      [text |-> "<p>Buy More Save More</p>",
       tokens |-> <<"NEW_BUY_MORE_SAVE_MORE_TRANSLATED">>],
      [text |-> "<p>Limited Time Offer</p>",
       tokens |-> <<"NEW_LIMITED_TIME_OFFER_TRANSLATED">>],
      [text |-> "OUR PRODUCT PHILOSOPHY",
       tokens |-> <<"NEW_PRODUCT_PHILOSOPHY_CAPTION_TRANSLATED">>],
      [text |-> "Learn More",
       tokens |-> <<"NEW_LEARN_MORE_BUTTON_TRANSLATED">>],
      [text |-> "What our customers say",
       tokens |-> <<"NEW_CUSTOMER_TESTIMONIALS_HEADING_TRANSLATED">>],
      [text |-> "Our Story",
       tokens |-> <<"NEW_OUR_STORY_BUTTON_TRANSLATED">>] >>

HomeUnits ==
    <<
      [name |-> "hero_heading", gen |-> "prompt_gpt", shape |-> "text",
       expected |-> NoFormat,
       contexts |-> <<>>,
       fields |-> <<
           [key |-> <<>>, token |-> "NEW_HERO_HEADING_GENERATED"] >>],
      [name |-> "hero_subheading", gen |-> "generate_with_format_validation", shape |-> "text",
       expected |-> <<"Save up to 55% on ", "<", "strong", ">", "Text Here", "<", "/strong", ">">>,
       contexts |-> <<>>,
       fields |-> <<
           [key |-> <<>>, token |-> "NEW_HERO_SUBHEADING_GENERATED"] >>],
      [name |-> "rating_text", gen |-> "prompt_gpt", shape |-> "text",
       expected |-> NoFormat,
       contexts |-> <<>>,
       fields |-> <<
           [key |-> <<>>, token |-> "NEW_RATING_TEXT_GENERATED"] >>],
      [name |-> "testimonials", gen |-> "prompt_gpt", shape |-> "json",
       expected |-> NoFormat,
       contexts |-> <<"testimonials">>,
       fields |-> <<
           [key |-> <<"testimonial_1", "caption">>, token |-> "NEW_TESTIMONIAL_1_CAPTION_GENERATED"],
           [key |-> <<"testimonial_1", "text">>, token |-> "NEW_TESTIMONIAL_1_TEXT_GENERATED"],
           [key |-> <<"testimonial_1", "author">>, token |-> "NEW_TESTIMONIAL_1_AUTHOR_GENERATED"],
           [key |-> <<"testimonial_2", "caption">>, token |-> "NEW_TESTIMONIAL_2_CAPTION_GENERATED"],
           [key |-> <<"testimonial_2", "text">>, token |-> "NEW_TESTIMONIAL_2_TEXT_GENERATED"],
           [key |-> <<"testimonial_2", "author">>, token |-> "NEW_TESTIMONIAL_2_AUTHOR_GENERATED"],
           [key |-> <<"testimonial_3", "caption">>, token |-> "NEW_TESTIMONIAL_3_CAPTION_GENERATED"],
           [key |-> <<"testimonial_3", "text">>, token |-> "NEW_TESTIMONIAL_3_TEXT_GENERATED"],
           [key |-> <<"testimonial_3", "author">>, token |-> "NEW_TESTIMONIAL_3_AUTHOR_GENERATED"] >>],
      [name |-> "reviews", gen |-> "prompt_gpt", shape |-> "json",
       expected |-> NoFormat,
       contexts |-> <<"reviews">>,
       fields |-> <<
           [key |-> <<"review_1">>, token |-> "NEW_CUSTOMER_REVIEW_1_GENERATED"],
           [key |-> <<"review_2">>, token |-> "NEW_CUSTOMER_REVIEW_2_GENERATED"],
           [key |-> <<"review_3">>, token |-> "NEW_CUSTOMER_REVIEW_3_GENERATED"] >>],
      [name |-> "benefits", gen |-> "prompt_gpt", shape |-> "json",
       expected |-> NoFormat,
       contexts |-> <<"benefits">>,
       fields |-> <<
           [key |-> <<"benefit_1">>, token |-> "NEW_BENEFIT_1_TEXT_GENERATED"],
           [key |-> <<"benefit_2">>, token |-> "NEW_BENEFIT_2_TEXT_GENERATED"],
           [key |-> <<"benefit_3">>, token |-> "NEW_BENEFIT_3_HEADING_GENERATED"],
           [key |-> <<"benefit_4_heading">>, token |-> "NEW_BENEFIT_4_HEADING_GENERATED"],
           [key |-> <<"benefit_4_text">>, token |-> "NEW_BENEFIT_4_TEXT_GENERATED"] >>],
      [name |-> "scrolling_texts", gen |-> "prompt_gpt", shape |-> "json",
       expected |-> NoFormat,
       contexts |-> <<"scrolling_texts">>,
       fields |-> <<
           [key |-> <<"text_1">>, token |-> "NEW_SCROLLING_TEXT_1_GENERATED"],
           [key |-> <<"text_2">>, token |-> "NEW_SCROLLING_TEXT_2_GENERATED"] >>],
      [name |-> "video_content", gen |-> "prompt_gpt", shape |-> "json",
       expected |-> NoFormat,
       contexts |-> <<"video_content">>,
       fields |-> <<
           [key |-> <<"heading">>, token |-> "NEW_BEAUTY_SERENITY_HEADING_GENERATED"],
           [key |-> <<"description">>, token |-> "NEW_VIDEO_SECTION_DESCRIPTION_GENERATED"],
           [key |-> <<"feature_1">>, token |-> "NEW_FEATURE_1_GENERATED"],
           [key |-> <<"feature_2">>, token |-> "NEW_FEATURE_2_GENERATED"],
           [key |-> <<"feature_3">>, token |-> "NEW_FEATURE_3_GENERATED"],
           [key |-> <<"percentage_text">>, token |-> "NEW_PERCENTAGE_TEXT_GENERATED"] >>],
      [name |-> "video_heading", gen |-> "generate_with_format_validation", shape |-> "text",
       expected |-> <<"**Transform** Your Experience">>,
       contexts |-> <<>>,
       fields |-> <<
           [key |-> <<>>, token |-> "NEW_VIDEO_HEADING_GENERATED"] >>],
      [name |-> "philosophy_heading", gen |-> "prompt_gpt", shape |-> "text",
       expected |-> NoFormat,
       contexts |-> <<>>,
       fields |-> <<
           [key |-> <<>>, token |-> "NEW_PHILOSOPHY_HEADING_GENERATED"] >>],
      [name |-> "doctor_testimonial", gen |-> "generate_with_format_validation", shape |-> "text",
       expected |-> <<"<", "p", ">", "<", "strong", ">", "Compelling quote about product quality/results", "<", "/strong", ">", "<", "/p", ">", "<", "h6", ">", "<", "strong", ">", "Expert Name, Specific Title/Credentials", "<", "/strong", ">", "<", "/h6", ">">>,
       contexts |-> <<>>,
       fields |-> <<
           [key |-> <<>>, token |-> "NEW_DOCTOR_TESTIMONIAL_GENERATED"] >>],
      [name |-> "result", gen |-> "generate_with_format_validation", shape |-> "text",
       expected |-> <<"Love ", "<", "strong", ">", "Your Skin", "<", "/strong", ">", ", Let Your ", "<", "em", ">", "Radiance", "<", "/em", ">", " Begin">>,
       contexts |-> <<>>,
       fields |-> <<
           [key |-> <<>>, token |-> "NEW_FINAL_CTA_HEADING_GENERATED"] >>] >>

ProductTranslations ==
    <<
      [text |-> "Pairs well with",
       tokens |-> <<"NEW_BLOCK_HEADING_006E6C29_717A_4F58_8FEA_CABC7DA6316F_TRANSLATED">>],
      [text |-> "Shop Collection",
       tokens |-> <<"NEW_BUTTON_LABEL_BUTTON_MHN8PC_TRANSLATED">>],
      [text |-> "July 2023",
       tokens |-> <<"NEW_DATE_TEXT_13A5819E_5698_472F_94EB_34D5A7AD9B21_TRANSLATED">>],
      [text |-> "Jan 2024",
       tokens |-> <<"NEW_DATE_TEXT_30900101_E5C8_4C0E_B5BD_0FCF8EEA85CF_TRANSLATED">>],
      [text |-> "July 2023",
       tokens |-> <<"NEW_DATE_TEXT_3C322C1A_1E3A_47E6_8D7B_720D506EB595_TRANSLATED">>],
      [text |-> "July 2023",
       tokens |-> <<"NEW_DATE_TEXT_53A5B896_0517_4E05_80FE_B23DE703E79B_TRANSLATED">>],
      [text |-> "Dec 2023",
       tokens |-> <<"NEW_DATE_TEXT_D032A47C_6F6E_4A8E_94B9_D1260A5D6B0D_TRANSLATED">>],
      [text |-> "July 2023",
       tokens |-> <<"NEW_DATE_TEXT_E3288062_4139_4942_8A82_452BFEBBD63F_TRANSLATED">>],
      [text |-> "Jan 2023",
       tokens |-> <<"NEW_DATE_TEXT_F57735F1_30A6_4538_8C95_BFE08674506B_TRANSLATED">>],
      [text |-> "July 2023",
       tokens |-> <<"NEW_DATE_TEXT_REVIEW_ARWHQK_TRANSLATED">>],
      [text |-> "July 2023",
       tokens |-> <<"NEW_DATE_TEXT_REVIEW_FWXHPQ_TRANSLATED">>],
      [text |-> "July 2023",
       tokens |-> <<"NEW_DATE_TEXT_REVIEW_KAGTR4_TRANSLATED">>],
      [text |-> "(x) People are looking at this",
       tokens |-> <<"NEW_FOMO_TEXT_BEFORE_4EC31670_952B_4ED4_8799_249844A8F39B_TRANSLATED">>],
      [text |-> "Rated the #1 drone technology in 2025.",
       tokens |-> <<"NEW_HEADER_TEXT_3475A8F9_021F_4ACD_8E57_163EF2A26740_TRANSLATED">>],
      [text |-> "100% Money <strong>Back</strong>!!",
       tokens |-> <<"NEW_HEADING_504C9E09_AAA7_49C4_8271_C6CA319D23F2_TRANSLATED">>],
      [text |-> "Shipping Information",
       tokens |-> <<"NEW_HEADING_9CCFFC8D_E4C7_404F_8007_8C5162F22285_TRANSLATED">>],
      [text |-> "FAQs",
       tokens |-> <<"NEW_HEADING_C0EF23CF_5481_4B47_9B78_3C28134C079A_TRANSLATED">>],
      [text |-> "Is everything recyclable?",
       tokens |-> <<"NEW_HEADING_COLLAPSIBLE_ROW_BMHKAN_TRANSLATED">>],
      [text |-> "How often should you use?",
       tokens |-> <<"NEW_HEADING_COLLAPSIBLE_ROW_GIDN9Z_TRANSLATED">>],
      [text |-> "Does this really work?",
       tokens |-> <<"NEW_HEADING_COLLAPSIBLE_ROW_T3YHUA_TRANSLATED">>],
      [text |-> "Ingredient list",
       tokens |-> <<"NEW_HEADING_COLLAPSIBLE_TAB_HK7DGX_TRANSLATED">>],
      [text |-> "Returns & Refunds",
       tokens |-> <<"NEW_HEADING_F34AD5C4_50A9_4A95_A561_D8C51D1B76DD_TRANSLATED">>],
      [text |-> "<strong>Experience Stealth with AeroShadow X1</strong>",
       tokens |-> <<"NEW_HEADING_HEADING_8E7QYA_TRANSLATED">>],
      [text |-> "<strong>Precision Drone Technology</strong>",
       tokens |-> <<"NEW_HEADING_HEADING_AJMG6N_TRANSLATED">>],
      [text |-> "<strong>Fly Beyond Limits.</strong>",
       tokens |-> <<"NEW_HEADING_HEADING_JHTCQY_TRANSLATED">>],
      [text |-> "You may also like",
       tokens |-> <<"NEW_HEADING_RELATED-PRODUCTS_TRANSLATED">>],
      [text |-> "What if it doesn???t work for me?",
       tokens |-> <<"NEW_HEADING_TEMPLATE__15124688076883__C0EF23CF_5481_4B47_9B78_3C28134C079A_COLLAPSIBLE_ROW_1_TRANSLATED">>],
      [text |-> "Guarantee?",
       tokens |-> <<"NEW_HEADING_TEMPLATE__15124688076883__C0EF23CF_5481_4B47_9B78_3C28134C079A_COLLAPSIBLE_ROW_2_TRANSLATED">>],
      [text |-> "Okay, but why have I never heard of this before?",
       tokens |-> <<"NEW_HEADING_TEMPLATE__15124688076883__C0EF23CF_5481_4B47_9B78_3C28134C079A_COLLAPSIBLE_ROW_3_TRANSLATED">>],
      [text |-> "Do you provide tracking information?",
       tokens |-> <<"NEW_HEADING_TEMPLATE__15124688076883__C0EF23CF_5481_4B47_9B78_3C28134C079A_COLLAPSIBLE_ROW_4_TRANSLATED">>],
      [text |-> "Johan D.",
       tokens |-> <<"NEW_NAME_TEXT_13A5819E_5698_472F_94EB_34D5A7AD9B21_TRANSLATED">>],
      [text |-> "Sofia R.",
       tokens |-> <<"NEW_NAME_TEXT_30900101_E5C8_4C0E_B5BD_0FCF8EEA85CF_TRANSLATED">>],
      [text |-> "Johan D.",
       tokens |-> <<"NEW_NAME_TEXT_3C322C1A_1E3A_47E6_8D7B_720D506EB595_TRANSLATED">>],
      [text |-> "Amy Grady, B.",
       tokens |-> <<"NEW_NAME_TEXT_53A5B896_0517_4E05_80FE_B23DE703E79B_TRANSLATED">>],
      [text |-> "Anabella C.",
       tokens |-> <<"NEW_NAME_TEXT_D032A47C_6F6E_4A8E_94B9_D1260A5D6B0D_TRANSLATED">>],
      [text |-> "Johan D.",
       tokens |-> <<"NEW_NAME_TEXT_E3288062_4139_4942_8A82_452BFEBBD63F_TRANSLATED">>],
      [text |-> "Vera R.",
       tokens |-> <<"NEW_NAME_TEXT_F57735F1_30A6_4538_8C95_BFE08674506B_TRANSLATED">>],
      [text |-> "Johan D.",
       tokens |-> <<"NEW_NAME_TEXT_REVIEW_ARWHQK_TRANSLATED">>],
      [text |-> "Johan D.",
       tokens |-> <<"NEW_NAME_TEXT_REVIEW_FWXHPQ_TRANSLATED">>],
      [text |-> "Johan D.",
       tokens |-> <<"NEW_NAME_TEXT_REVIEW_KAGTR4_TRANSLATED">>],
      [text |-> "Most Popular",
       tokens |-> <<"NEW_OPTION_1_BADGE_TEXT_QUANTITY_SELECTOR_Q9D74M_TRANSLATED">>],
      [text |-> "1 Drone",
       tokens |-> <<"NEW_OPTION_1_LABEL_QUANTITY_SELECTOR_Q9D74M_TRANSLATED">>],
      [text |-> "SPECIAL OFFER - Limited Time",
       tokens |-> <<"NEW_OPTION_2_BADGE_TEXT_QUANTITY_SELECTOR_Q9D74M_TRANSLATED">>],
      [text |-> "Buy 2, Get 1 FREE",
       tokens |-> <<"NEW_OPTION_2_LABEL_QUANTITY_SELECTOR_Q9D74M_TRANSLATED">>],
      [text |-> "FLASH SALE ??? Grab It Before It's Gone",
       tokens |-> <<"NEW_OPTION_3_BADGE_TEXT_QUANTITY_SELECTOR_Q9D74M_TRANSLATED">>],
      [text |-> "Buy 3, Get 2 FREE",
       tokens |-> <<"NEW_OPTION_3_LABEL_QUANTITY_SELECTOR_Q9D74M_TRANSLATED">>],
      [text |-> "Most Popular",
       tokens |-> <<"NEW_OPTION_4_BADGE_TEXT_QUANTITY_SELECTOR_Q9D74M_TRANSLATED">>],
      [text |-> "4 Drones",
       tokens |-> <<"NEW_OPTION_4_LABEL_QUANTITY_SELECTOR_Q9D74M_TRANSLATED">>],
      [text |-> "Most Popular",
       tokens |-> <<"NEW_OPTION_5_BADGE_TEXT_QUANTITY_SELECTOR_Q9D74M_TRANSLATED">>],
      [text |-> "5 Drones",
       tokens |-> <<"NEW_OPTION_5_LABEL_QUANTITY_SELECTOR_Q9D74M_TRANSLATED">>],
      [text |-> "Most Popular",
       tokens |-> <<"NEW_OPTION_6_BADGE_TEXT_QUANTITY_SELECTOR_Q9D74M_TRANSLATED">>],
      [text |-> "6 Drones",
       tokens |-> <<"NEW_OPTION_6_LABEL_QUANTITY_SELECTOR_Q9D74M_TRANSLATED">>],
      [text |-> "Nice Product",
       tokens |-> <<"NEW_REVIEW_HEAD_13A5819E_5698_472F_94EB_34D5A7AD9B21_TRANSLATED">>],
      [text |-> "Works well for advanced flights!",
       tokens |-> <<"NEW_REVIEW_HEAD_30900101_E5C8_4C0E_B5BD_0FCF8EEA85CF_TRANSLATED">>],
      [text |-> "Nice Product",
       tokens |-> <<"NEW_REVIEW_HEAD_3C322C1A_1E3A_47E6_8D7B_720D506EB595_TRANSLATED">>],
      [text |-> "The Only Drone That Has Worked For Me",
       tokens |-> <<"NEW_REVIEW_HEAD_53A5B896_0517_4E05_80FE_B23DE703E79B_TRANSLATED">>],
      [text |-> "Holy Unexpected!!",
       tokens |-> <<"NEW_REVIEW_HEAD_D032A47C_6F6E_4A8E_94B9_D1260A5D6B0D_TRANSLATED">>],
      [text |-> "Nice Product",
       tokens |-> <<"NEW_REVIEW_HEAD_E3288062_4139_4942_8A82_452BFEBBD63F_TRANSLATED">>],
      [text |-> "BEST PURCHASE BEST FIND",
       tokens |-> <<"NEW_REVIEW_HEAD_F57735F1_30A6_4538_8C95_BFE08674506B_TRANSLATED">>],
      [text |-> "Nice Product",
       tokens |-> <<"NEW_REVIEW_HEAD_REVIEW_ARWHQK_TRANSLATED">>],
      [text |-> "Nice Product",
       tokens |-> <<"NEW_REVIEW_HEAD_REVIEW_FWXHPQ_TRANSLATED">>],
      [text |-> "Nice Product",
       tokens |-> <<"NEW_REVIEW_HEAD_REVIEW_KAGTR4_TRANSLATED">>],
      [text |-> "??? <strong>Obsessed with the Results</strong>",
       tokens |-> <<"NEW_TITLE_COLUMN_7ZMKCE_TRANSLATED">>],
      [text |-> "??? <strong>Visible Results, Fast</strong>",
       tokens |-> <<"NEW_TITLE_COLUMN_9PFUYJ_TRANSLATED">>],
      [text |-> "???? <strong>Worth Every Penny</strong>",
       tokens |-> <<"NEW_TITLE_COLUMN_HTTYFJ_TRANSLATED">>],
      [text |-> "???? <strong>Advanced Drone Technology</strong>",
       tokens |-> <<"NEW_TITLE_COLUMN_XLTNH7_TRANSLATED">>],
      [text |-> "What makes AeroShadow right for you?",
       tokens |-> <<"NEW_TITLE_COMPARISON_TABLE_9J8NNQ_TRANSLATED">>],
      [text |-> "Why AeroShadow is <strong>Better</strong>",
       tokens |-> <<"NEW_TITLE_LUMIN_HERO_8JR4II_TRANSLATED">>],
      [text |-> "Drone Tech for the Best Flights Yet",
       tokens |-> <<"NEW_TITLE_MULTICOLUMN_XDHHWC_TRANSLATED">>],
      [text |-> "Was this helpful?",
       tokens |-> <<"NEW_LIKE_TEXT_3475A8F9_021F_4ACD_8E57_163EF2A26740_TRANSLATED">>],
      [text |-> "Load More",
       tokens |-> <<"NEW_LOAD_TEXT_3475A8F9_021F_4ACD_8E57_163EF2A26740_TRANSLATED">>],
      [text |-> "Verified Buyer",
       tokens |-> <<"NEW_VERIFY_TEXT_3475A8F9_021F_4ACD_8E57_163EF2A26740_TRANSLATED">>],
      [text |-> "SkyForge Tech",
       tokens |-> <<"NEW_HEAD_TEXT_J7DFT4_GENERATED">>] >>

ProductUnits ==
    <<
      [name |-> "announcements", gen |-> "generate_with_format_validation", shape |-> "json",
       expected |-> <<"<", "h1", ">", "Text", "<", "/h1", ">">>,
       contexts |-> <<"announcements", "announcements_retry">>,
       fields |-> <<
           [key |-> <<"announcement_91817b81">>, token |-> "NEW_ANNOUNCEMENT_91817B81_C148_4C6C_8A35_09D6BA380CA5_GENERATED"],
           [key |-> <<"announcement_gAyVVz">>, token |-> "NEW_ANNOUNCEMENT_ANNOUNCEMENT_GAYVVZ_GENERATED"],
           [key |-> <<"announcement_XGt7RJ">>, token |-> "NEW_ANNOUNCEMENT_ANNOUNCEMENT_XGT7RJ_GENERATED"],
           [key |-> <<"announcement_dd77f8e0">>, token |-> "NEW_ANNOUNCEMENT_DD77F8E0_9A10_41D6_A2A8_69B2326223A3_GENERATED"],
           [key |-> <<"announcement_template_1">>, token |-> "NEW_ANNOUNCEMENT_TEMPLATE__15124688076883__05F459A6_0335_4BAB_8D23_AC347077EFCC_ANNOUNCEMENT_1_GENERATED"],
           [key |-> <<"announcement_template_2">>, token |-> "NEW_ANNOUNCEMENT_TEMPLATE__15124688076883__05F459A6_0335_4BAB_8D23_AC347077EFCC_ANNOUNCEMENT_2_GENERATED"] >>],
      [name |-> "button_texts", gen |-> "prompt_gpt", shape |-> "json",
       expected |-> NoFormat,
       contexts |-> <<"button_texts", "button_texts_retry">>,
       fields |-> <<
           [key |-> <<"image_4GCwJt">>, token |-> "NEW_BUTTON-TEXT_IMAGE_4GCWJT_GENERATED"],
           [key |-> <<"image_6kyG4n">>, token |-> "NEW_BUTTON-TEXT_IMAGE_6KYG4N_GENERATED"],
           [key |-> <<"image_8WUeHF">>, token |-> "NEW_BUTTON-TEXT_IMAGE_8WUEHF_GENERATED"],
           [key |-> <<"image_g6WCgH">>, token |-> "NEW_BUTTON-TEXT_IMAGE_G6WCGH_GENERATED"],
           [key |-> <<"image_mczRTQ">>, token |-> "NEW_BUTTON-TEXT_IMAGE_MCZRTQ_GENERATED"],
           [key |-> <<"image_mWKfnL">>, token |-> "NEW_BUTTON-TEXT_IMAGE_MWKFNL_GENERATED"],
           [key |-> <<"image_XDdFEp">>, token |-> "NEW_BUTTON-TEXT_IMAGE_XDDFEP_GENERATED"],
           [key |-> <<"image_YQMGF7">>, token |-> "NEW_BUTTON-TEXT_IMAGE_YQMGF7_GENERATED"],
           [key |-> <<"image_template_1">>, token |-> "NEW_BUTTON-TEXT_TEMPLATE__17146523746516__530954A1_091E_46FD_B6F9_AAAACA76CEB6_IMAGE_1_GENERATED"],
           [key |-> <<"text_j7Dft4">>, token |-> "NEW_BUTTON-TEXT_TEXT_J7DFT4_GENERATED"] >>],
      [name |-> "content_sections", gen |-> "generate_with_format_validation", shape |-> "json",
       expected |-> <<"<", "p", ">", "Text", "<", "/p", ">">>,
       contexts |-> <<"content_sections", "content_sections_retry">>,
       fields |-> <<
           [key |-> <<"content_9ccffc8d">>, token |-> "NEW_CONTENT_9CCFFC8D_E4C7_404F_8007_8C5162F22285_GENERATED"],
           [key |-> <<"content_f34ad5c4">>, token |-> "NEW_CONTENT_F34AD5C4_50A9_4A95_A561_D8C51D1B76DD_GENERATED"],
           [key |-> <<"content_promo_krqbTU">>, token |-> "NEW_CONTENT_PROMO_KRQBTU_GENERATED"],
           [key |-> <<"content_promo_QC7Vbj">>, token |-> "NEW_CONTENT_PROMO_QC7VBJ_GENERATED"],
           [key |-> <<"content_collapsible_tab_HK7dGX">>, token |-> "NEW_CONTENT_COLLAPSIBLE_TAB_HK7DGX_GENERATED"],
           [key |-> <<"row_content_BMHKaN">>, token |-> "NEW_ROW_CONTENT_COLLAPSIBLE_ROW_BMHKAN_GENERATED"],
           [key |-> <<"row_content_GiDN9z">>, token |-> "NEW_ROW_CONTENT_COLLAPSIBLE_ROW_GIDN9Z_GENERATED"],
           [key |-> <<"row_content_t3yhUa">>, token |-> "NEW_ROW_CONTENT_COLLAPSIBLE_ROW_T3YHUA_GENERATED"],
           [key |-> <<"row_content_template_1">>, token |-> "NEW_ROW_CONTENT_TEMPLATE__15124688076883__C0EF23CF_5481_4B47_9B78_3C28134C079A_COLLAPSIBLE_ROW_1_GENERATED"],
           [key |-> <<"row_content_template_2">>, token |-> "NEW_ROW_CONTENT_TEMPLATE__15124688076883__C0EF23CF_5481_4B47_9B78_3C28134C079A_COLLAPSIBLE_ROW_2_GENERATED"],
           [key |-> <<"row_content_template_3">>, token |-> "NEW_ROW_CONTENT_TEMPLATE__15124688076883__C0EF23CF_5481_4B47_9B78_3C28134C079A_COLLAPSIBLE_ROW_3_GENERATED"],
           [key |-> <<"row_content_template_4">>, token |-> "NEW_ROW_CONTENT_TEMPLATE__15124688076883__C0EF23CF_5481_4B47_9B78_3C28134C079A_COLLAPSIBLE_ROW_4_GENERATED"],
           [key |-> <<"tab_content_DgkJ3j">>, token |-> "NEW_TAB_CONTENT_TABS_DGKJ3J_GENERATED"],
           [key |-> <<"tab_content_2_DgkJ3j">>, token |-> "NEW_TAB_CONTENT_2_TABS_DGKJ3J_GENERATED"],
           [key |-> <<"tab_content_3_DgkJ3j">>, token |-> "NEW_TAB_CONTENT_3_TABS_DGKJ3J_GENERATED"] >>],
      [name |-> "review_content", gen |-> "generate_with_format_validation", shape |-> "json",
       expected |-> <<"<", "p", ">", "Text", "<", "/p", ">">>,
       contexts |-> <<"review_content", "review_content_retry">>,
       fields |-> <<
           [key |-> <<"review_text_13a5819e">>, token |-> "NEW_REVIEW_TEXT_13A5819E_5698_472F_94EB_34D5A7AD9B21_GENERATED"],
           [key |-> <<"review_text_30900101">>, token |-> "NEW_REVIEW_TEXT_30900101_E5C8_4C0E_B5BD_0FCF8EEA85CF_GENERATED"],
           [key |-> <<"review_text_3c322c1a">>, token |-> "NEW_REVIEW_TEXT_3C322C1A_1E3A_47E6_8D7B_720D506EB595_GENERATED"],
           [key |-> <<"review_text_53a5b896">>, token |-> "NEW_REVIEW_TEXT_53A5B896_0517_4E05_80FE_B23DE703E79B_GENERATED"],
           [key |-> <<"review_text_d032a47c">>, token |-> "NEW_REVIEW_TEXT_D032A47C_6F6E_4A8E_94B9_D1260A5D6B0D_GENERATED"],
           [key |-> <<"review_text_e3288062">>, token |-> "NEW_REVIEW_TEXT_E3288062_4139_4942_8A82_452BFEBBD63F_GENERATED"],
           [key |-> <<"review_text_f57735f1">>, token |-> "NEW_REVIEW_TEXT_F57735F1_30A6_4538_8C95_BFE08674506B_GENERATED"],
           [key |-> <<"review_text_ArWHqK">>, token |-> "NEW_REVIEW_TEXT_REVIEW_ARWHQK_GENERATED"],
           [key |-> <<"review_text_fwxHPq">>, token |-> "NEW_REVIEW_TEXT_REVIEW_FWXHPQ_GENERATED"],
           [key |-> <<"review_text_kAgTR4">>, token |-> "NEW_REVIEW_TEXT_REVIEW_KAGTR4_GENERATED"],
           [key |-> <<"rating_count_3475a8f9">>, token |-> "NEW_RATING_COUNT_3475A8F9_021F_4ACD_8E57_163EF2A26740_GENERATED"],
           [key |-> <<"lrw_text_7f391028">>, token |-> "NEW_LRW_TEXT_7F391028_A103_4E66_BB50_BD71D4672AF4_GENERATED"] >>],
      [name |-> "quantity_selector", gen |-> "generate_with_format_validation", shape |-> "json",
       expected |-> <<"<", "h3", ">", "Text", "<", "/h3", ">">>,
       contexts |-> <<"quantity_selector", "quantity_selector_retry">>,
       fields |-> <<
           [key |-> <<"option_1_save_text">>, token |-> "NEW_OPTION_1_SAVE_TEXT_QUANTITY_SELECTOR_Q9D74M_GENERATED"],
           [key |-> <<"option_1_unit_label">>, token |-> "NEW_OPTION_1_UNIT_LABEL_QUANTITY_SELECTOR_Q9D74M_GENERATED"],
           [key |-> <<"option_2_save_text">>, token |-> "NEW_OPTION_2_SAVE_TEXT_QUANTITY_SELECTOR_Q9D74M_GENERATED"],
           [key |-> <<"option_2_unit_label">>, token |-> "NEW_OPTION_2_UNIT_LABEL_QUANTITY_SELECTOR_Q9D74M_GENERATED"],
           [key |-> <<"option_3_promo">>, token |-> "NEW_OPTION_3_PROMO_QUANTITY_SELECTOR_Q9D74M_GENERATED"],
           [key |-> <<"option_3_save_text">>, token |-> "NEW_OPTION_3_SAVE_TEXT_QUANTITY_SELECTOR_Q9D74M_GENERATED"],
           [key |-> <<"option_3_unit_label">>, token |-> "NEW_OPTION_3_UNIT_LABEL_QUANTITY_SELECTOR_Q9D74M_GENERATED"],
           [key |-> <<"option_4_save_text">>, token |-> "NEW_OPTION_4_SAVE_TEXT_QUANTITY_SELECTOR_Q9D74M_GENERATED"],
           [key |-> <<"option_4_unit_label">>, token |-> "NEW_OPTION_4_UNIT_LABEL_QUANTITY_SELECTOR_Q9D74M_GENERATED"],
           [key |-> <<"option_5_save_text">>, token |-> "NEW_OPTION_5_SAVE_TEXT_QUANTITY_SELECTOR_Q9D74M_GENERATED"],
           [key |-> <<"option_5_unit_label">>, token |-> "NEW_OPTION_5_UNIT_LABEL_QUANTITY_SELECTOR_Q9D74M_GENERATED"],
           [key |-> <<"option_6_save_text">>, token |-> "NEW_OPTION_6_SAVE_TEXT_QUANTITY_SELECTOR_Q9D74M_GENERATED"],
           [key |-> <<"option_6_unit_label">>, token |-> "NEW_OPTION_6_UNIT_LABEL_QUANTITY_SELECTOR_Q9D74M_GENERATED"],
           [key |-> <<"quantity_title_text">>, token |-> "NEW_QUANTITY_TITLE_TEXT_QUANTITY_SELECTOR_Q9D74M_GENERATED"] >>],
      [name |-> "text_sections", gen |-> "generate_with_format_validation", shape |-> "json",
       expected |-> <<"<", "p", ">", "Text", "<", "/p", ">">>,
       contexts |-> <<"text_sections", "text_sections_retry">>,
       fields |-> <<
           [key |-> <<"head_text_lumin_hero_8jr4ii">>, token |-> "NEW_HEAD_TEXT_LUMIN_HERO_8JR4II_GENERATED"],
           [key |-> <<"subtitle_text_j7Dft4">>, token |-> "NEW_SUBTITLE_TEXT_J7DFT4_GENERATED"],
           [key |-> <<"text_1_hero_Wjwazn">>, token |-> "NEW_TEXT_1_HERO_WJWAZN_GENERATED"],
           [key |-> <<"text_2_hero_Wjwazn">>, token |-> "NEW_TEXT_2_HERO_WJWAZN_GENERATED"],
           [key |-> <<"text_3_hero_Wjwazn">>, token |-> "NEW_TEXT_3_HERO_WJWAZN_GENERATED"],
           [key |-> <<"text_4_hero_Wjwazn">>, token |-> "NEW_TEXT_4_HERO_WJWAZN_GENERATED"],
           [key |-> <<"text_5_hero_Wjwazn">>, token |-> "NEW_TEXT_5_HERO_WJWAZN_GENERATED"],
           [key |-> <<"text_6_hero_Wjwazn">>, token |-> "NEW_TEXT_6_HERO_WJWAZN_GENERATED"],
           [key |-> <<"text_264e37ac">>, token |-> "NEW_TEXT_264E37AC_8AC8_475C_9F10_973D46BB217D_GENERATED"],
           [key |-> <<"text_504c9e09">>, token |-> "NEW_TEXT_504C9E09_AAA7_49C4_8271_C6CA319D23F2_GENERATED"],
           [key |-> <<"text_74e17b96">>, token |-> "NEW_TEXT_74E17B96_75E8_4EC7_AE08_2DF77F4249CB_GENERATED"],
           [key |-> <<"text_promo_slide_YiPa48_1">>, token |-> "NEW_TEXT_1_PROMO_SLIDE_YIPA48_GENERATED"],
           [key |-> <<"text_promo_slide_YiPa48_2">>, token |-> "NEW_TEXT_2_PROMO_SLIDE_YIPA48_GENERATED"],
           [key |-> <<"text_promo_slide_YiPa48_3">>, token |-> "NEW_TEXT_3_PROMO_SLIDE_YIPA48_GENERATED"],
           [key |-> <<"text_column_7zMkCE">>, token |-> "NEW_TEXT_COLUMN_7ZMKCE_GENERATED"],
           [key |-> <<"text_column_9PFUYj">>, token |-> "NEW_TEXT_COLUMN_9PFUYJ_GENERATED"],
           [key |-> <<"text_column_htTYfJ">>, token |-> "NEW_TEXT_COLUMN_HTTYFJ_GENERATED"],
           [key |-> <<"text_column_xLTnh7">>, token |-> "NEW_TEXT_COLUMN_XLTNH7_GENERATED"],
           [key |-> <<"text_column_afLRa6">>, token |-> "NEW_TEXT_COLUMN_AFLRA6_GENERATED"],
           [key |-> <<"text_column_FpEWjD">>, token |-> "NEW_TEXT_COLUMN_FPEWJD_GENERATED"],
           [key |-> <<"text_column_kcUK3B">>, token |-> "NEW_TEXT_COLUMN_KCUK3B_GENERATED"],
           [key |-> <<"text_column_nMFyQP">>, token |-> "NEW_TEXT_COLUMN_NMFYQP_GENERATED"],
           [key |-> <<"text_comparison_table_9j8NnQ">>, token |-> "NEW_TEXT_COMPARISON_TABLE_9J8NNQ_GENERATED"],
           [key |-> <<"text_feature_6cxT6B">>, token |-> "NEW_TEXT_FEATURE_6CXT6B_GENERATED"],
           [key |-> <<"text_feature_aYFzam">>, token |-> "NEW_TEXT_FEATURE_AYFZAM_GENERATED"],
           [key |-> <<"text_feature_HCBWrx">>, token |-> "NEW_TEXT_FEATURE_HCBWRX_GENERATED"],
           [key |-> <<"text_feature_Kgr9Aj">>, token |-> "NEW_TEXT_FEATURE_KGR9AJ_GENERATED"],
           [key |-> <<"text_feature_teRTgW">>, token |-> "NEW_TEXT_FEATURE_TERTGW_GENERATED"],
           [key |-> <<"text_text_T999BU">>, token |-> "NEW_TEXT_TEXT_T999BU_GENERATED"],
           [key |-> <<"text_text_VYmMN6">>, token |-> "NEW_TEXT_TEXT_VYMMN6_GENERATED"],
           [key |-> <<"text_text_wFDAYF">>, token |-> "NEW_TEXT_TEXT_WFDAYF_GENERATED"],
           [key |-> <<"text_popup_DVDmRD">>, token |-> "NEW_TEXT_POPUP_DVDMRD_GENERATED"],
           [key |-> <<"text_low_many_xPXzfP">>, token |-> "NEW_TEXT_LOW_MANY_INVENTORY_XPXZFP_GENERATED"],
           [key |-> <<"text_low_one_xPXzfP">>, token |-> "NEW_TEXT_LOW_ONE_INVENTORY_XPXZFP_GENERATED"],
           [key |-> <<"text_normal_xPXzfP">>, token |-> "NEW_TEXT_NORMAL_INVENTORY_XPXZFP_GENERATED"],
           [key |-> <<"text_soldout_xPXzfP">>, token |-> "NEW_TEXT_SOLDOUT_INVENTORY_XPXZFP_GENERATED"],
           [key |-> <<"text_untracked_xPXzfP">>, token |-> "NEW_TEXT_UNTRACKED_INVENTORY_XPXZFP_GENERATED"] >>] >>


(***************************************************************************)
(* Bounds of the model.  A run is followed through the first               *)
(* MaxTranslations translation steps and the first MaxUnits content units  *)
(* of its page, each unit with its first MaxFields replace_in_file calls.  *)
(***************************************************************************)
MaxTranslations == 2
MaxUnits == 4
MaxFields == 2

Pages == {"footer", "home", "product"}

Prefix(s, n) == SubSeq(s, 1, Min(n, Len(s)))

AllTranslations(pg) ==
    IF pg = "footer" THEN FooterTranslations
    ELSE IF pg = "home" THEN HomeTranslations
    ELSE ProductTranslations

AllUnits(pg) ==
    IF pg = "footer" THEN FooterUnits
    ELSE IF pg = "home" THEN HomeUnits
    ELSE ProductUnits

Translations(pg) == Prefix(AllTranslations(pg), MaxTranslations)
Units(pg) == Prefix(AllUnits(pg), MaxUnits)
Fields(u) == Prefix(u.fields, MaxFields)

\* Every token of the steps followed, in the order the script names them.
RECURSIVE TranslationTokens(_)
TranslationTokens(ts) ==
    IF ts = <<>> THEN <<>> ELSE Head(ts).tokens \o TranslationTokens(Tail(ts))

UnitTokens(u) == [i \in 1..Len(Fields(u)) |-> Fields(u)[i].token]

RECURSIVE UnitsTokens(_)
UnitsTokens(us) ==
    IF us = <<>> THEN <<>> ELSE UnitTokens(Head(us)) \o UnitsTokens(Tail(us))

\* The target document a run starts from: every token once.
Template(pg) == TranslationTokens(Translations(pg)) \o UnitsTokens(Units(pg))

\* A target document that has drifted from the script: it lacks every
\* second token the script names.
Drifted(pg) ==
    [i \in 1..((Len(Template(pg)) + 1) \div 2) |-> Template(pg)[2 * i - 1]]

(***************************************************************************)
(* The external text-completion capability.  A call raises or returns a    *)
(* text; the texts are drawn from a few per call site.                     *)
(***************************************************************************)
HtmlValue == <<"<", "p", ">", "Texte", "<", "/p", ">">>

\* The number of leading paths of ps that start with key k and go deeper.
RECURSIVE GroupLen(_, _)
GroupLen(ps, k) ==
    IF ps # <<>> /\ Len(Head(ps)) > 1 /\ Head(ps)[1] = k
    THEN 1 + GroupLen(Tail(ps), k)
    ELSE 0

\* The members "key": "val" of an object that has a string val at every
\* path of ps; paths that share a first key become one nested object.
RECURSIVE RenderMembers(_, _)
RenderMembers(ps, val) ==
    IF ps = <<>> THEN <<>>
    ELSE
    LET k == Head(ps)[1]
        n == IF Len(Head(ps)) = 1 THEN 1 ELSE GroupLen(ps, k)
        rest == SubSeq(ps, n + 1, Len(ps))
        sep == IF rest = <<>> THEN <<>> ELSE <<",", " ">>
        member ==
            IF Len(Head(ps)) = 1
            THEN <<DQ, k, DQ, ":", " ", DQ>> \o val \o <<DQ>>
            ELSE <<DQ, k, DQ, ":", " ", "{">>
                 \o RenderMembers([i \in 1..n |-> Tail(ps[i])], val)
                 \o <<"}">>
    IN  member \o sep \o RenderMembers(rest, val)

JsonText(ps, val) == <<"{">> \o RenderMembers(ps, val) \o <<"}">>

Paths(u) == [i \in 1..Len(Fields(u)) |-> Fields(u)[i].key]

Without(s, k) == SubSeq(s, 1, k - 1) \o SubSeq(s, k + 1, Len(s))

Fenced(t) == <<FENCE, "json", "\n">> \o t \o <<"\n", FENCE>>

\* An object whose value is not quoted: no valid JSON.
BrokenJson == <<"{", DQ, "heading", DQ, ":", " ", "Souris", "}">>

\* n markup tags after a word.
RECURSIVE Tagged(_)
Tagged(n) == IF n = 0 THEN <<"Texte">> ELSE Tagged(n - 1) \o <<"<", "b", ">">>

ExpectedTags(u) ==
    IF FormatHasLt(u.expected) THEN CountTags(u.expected) ELSE 0

\* The texts a call made for unit u may return.
UnitCompletions(u) ==
    IF u.shape = "json"
    THEN {JsonText(Paths(u), HtmlValue),
          Fenced(JsonText(Paths(u), HtmlValue)),
          BrokenJson}
         \cup {JsonText(Without(Paths(u), k), HtmlValue) :
                  k \in 1..Len(Paths(u))}
    ELSE {Tagged(ExpectedTags(u)), <<" ">> \o Tagged(ExpectedTags(u)), <<>>,
          Fenced(Tagged(ExpectedTags(u)))}
         \cup (IF ExpectedTags(u) > 0
               THEN {Tagged(ExpectedTags(u) - 1)} ELSE {})

\* The texts a translation call may return.
TranslationCompletions ==
    {<<"Einkaufen">>, <<DQ, "Einkaufen", DQ>>, <<" ", "Einkaufen", "\n">>}

Raised == [ok |-> FALSE, text |-> <<>>]
Returned(t) == [ok |-> TRUE, text |-> t]
Outcomes(texts) == {Raised} \cup {Returned(t) : t \in texts}

(***************************************************************************)
(* The state of one run of a page script.                                  *)
(***************************************************************************)
VARIABLES
    page,        \* the script run: "footer", "home" or "product"
    pc,          \* the statement the run is at
    ti,          \* the translation step being processed
    tk,          \* the token of that step being replaced
    ui,          \* the content unit being processed or last processed,
                 \* 0 before the first
    fi,          \* the replace_in_file call of that unit being made
    attempt,     \* prompt_gpt: the loop variable attempt
    round,       \* generate_with_format_validation: its loop variable
    prompt,      \* the prompt text as a sequence of its parts
    result,      \* the text the generator call returned
    translated,  \* translate_text's return value
    parsed,      \* the value json.loads returned for the unit
    fixes,       \* fix_json_with_gpt calls completed for the unit
    fs,          \* the target file: "ok", "unreadable" or "unwritable"
    file,        \* the content of the target file
    err,         \* the exception that ended the run, "none" if none
    pgLog,       \* history: the outcomes of the calls of the prompt_gpt
                 \* invocation in progress or last returned
    pgRaw,       \* history: the text the last successful call returned
    rounds,      \* history: the tag count and the validation verdict of
                 \* the result of each round of
                 \* generate_with_format_validation
    unitCalls,   \* history: calls to the capability made for the unit
    fixLog,      \* history: the context labels of the unit's fix calls
    replaced,    \* history: the tokens of the unit replaced in the file
    call         \* a helper called on its own: its arguments and outcome

vars == <<page, pc, ti, tk, ui, fi, attempt, round, prompt, result,
          translated, parsed, fixes, fs, file, err, pgLog, pgRaw, rounds,
          unitCalls, fixLog, replaced, call>>

MaxRetries == 3
MaxRounds == 3

StructureInstruction == "IMPORTANT: Maintain the exact HTML structure"
CorrectiveInstruction == "Please maintain the HTML tags structure"

NoCall == [fn |-> "none"]

\* The n-th unit of the run; generate_with_format_validation called on its
\* own is given its unit by the call.
UnitAt(n) ==
    IF call.fn = "generate_with_format_validation"
    THEN call.unit
    ELSE Units(page)[n]

Unit == UnitAt(ui)


FileStates == {"ok", "unreadable", "unwritable"}

UnitHistoryReset ==
    /\ pgLog' = <<>>
    /\ pgRaw' = <<>>
    /\ rounds' = <<>>
    /\ unitCalls' = 0
    /\ fixLog' = <<>>
    /\ replaced' = <<>>

\* A page script at its start, whatever the target file holds.
RunPosition ==
    /\ page \in Pages
    /\ pc = "translate"
    /\ ti = 1
    /\ tk = 1
    /\ ui = 0
    /\ fi = 1
    /\ attempt = 0
    /\ round = 0
    /\ prompt = <<>>
    /\ result = <<>>
    /\ translated = <<>>
    /\ parsed = JFail
    /\ fixes = 0
    /\ fs \in FileStates
    /\ err = "none"
    /\ pgLog = <<>>
    /\ pgRaw = <<>>
    /\ rounds = <<>>
    /\ unitCalls = 0
    /\ fixLog = <<>>
    /\ replaced = <<>>

\* A run at its start, whatever the target file holds.
RunStart ==
    /\ RunPosition
    /\ call = NoCall

Init ==
    /\ RunStart
    /\ file = Template(page)

(***************************************************************************)
(* replace_in_file.  The target file is readable and writable, or cannot   *)
(* be read, or cannot be written, for the whole run.  The footer and home  *)
(* scripts let the exception of open() or of str.replace() out; the        *)
(* product script                                                          *)
(* catches every exception, prints it and returns, and writes only when    *)
(* the placeholder is in the data read.                                    *)
(***************************************************************************)
\* Line endings in the file, each one lexeme.
LF == "\n"
CR == "\r"
CRLF == "\r\n"

\* f.read() of a file opened with open(path, 'r', encoding='utf-8'): text
\* mode with universal newlines, every line ending read as "\n".
ReadText(bytes) ==
    [i \in 1..Len(bytes) |-> IF bytes[i] \in {CR, CRLF} THEN LF ELSE bytes[i]]

\* os.linesep of the platform the script runs on: "\n" on POSIX, "\r\n" on
\* Windows.  A run started for either platform carries it in its call.
LineSep == IF "linesep" \in DOMAIN call THEN call.linesep ELSE LF

\* f.write(data) to a file opened with open(path, 'w', encoding='utf-8'):
\* every "\n" written as os.linesep.
WriteText(data) ==
    [i \in 1..Len(data) |-> IF data[i] = LF THEN LineSep ELSE data[i]]

\* What a call leaves: the file content, the exception let out ("none" if
\* none), and whether the file was written.
NotWritten(data, e) == [file |-> data, exc |-> e, wrote |-> FALSE]
Written(data) == [file |-> data, exc |-> "none", wrote |-> TRUE]

\* A replace_in_file that writes the data back as read.
replace_in_file_unreplaced(data, fsNow, placeholder, content) ==
    IF fsNow = "ok" THEN Written(data) ELSE NotWritten(data, "IOError")

\* A replace_in_file that catches every exception and writes the file
\* whether the placeholder is in it or not.
replace_in_file_swallowing(data, fsNow, placeholder, content) ==
    IF fsNow = "ok" /\ content.t = "str"
    THEN Written(WriteText(StrReplace(ReadText(data), placeholder, content.v)))
    ELSE NotWritten(data, "none")

replace_in_file_plain(data, fsNow, placeholder, content) ==
    IF fsNow = "unreadable" THEN NotWritten(data, "IOError")
    ELSE IF content.t # "str" THEN NotWritten(data, "TypeError")
    ELSE IF fsNow = "unwritable" THEN NotWritten(data, "IOError")
    ELSE Written(WriteText(StrReplace(ReadText(data), placeholder, content.v)))

\* A replace_in_file that raises when the placeholder is not in the file.
replace_in_file_strict(data, fsNow, placeholder, content) ==
    IF fsNow = "unreadable" THEN NotWritten(data, "none")
    ELSE IF ~Contains(data, placeholder)
    THEN NotWritten(data, "MissingPlaceholder")
    ELSE IF content.t # "str" THEN NotWritten(data, "none")
    ELSE IF fsNow = "unwritable" THEN NotWritten(data, "none")
    ELSE Written(StrReplace(data, placeholder, content.v))

replace_in_file_product(data, fsNow, placeholder, content) ==
    IF fsNow = "unreadable" THEN NotWritten(data, "none")
    ELSE IF ~Contains(ReadText(data), placeholder) THEN NotWritten(data, "none")
    ELSE IF content.t # "str" THEN NotWritten(data, "none")
    ELSE IF fsNow = "unwritable" THEN NotWritten(data, "none")
    ELSE Written(WriteText(StrReplace(ReadText(data), placeholder, content.v)))

replace_in_file(pg, data, fsNow, placeholder, content) ==
    IF pg = "product"
    THEN replace_in_file_product(data, fsNow, placeholder, content)
    ELSE replace_in_file_plain(data, fsNow, placeholder, content)

\* A script that catches the exception of a unit and goes on to the next.
SkipUnit(e) ==
    /\ pc' = IF ui < Len(Units(page)) THEN "generate" ELSE "done"
    /\ err' = e

\* A caller that catches the exception and goes on with the result it has.
ReturnInstead(e) ==
    /\ pc' = "parse"
    /\ err' = e

Abort(e) ==
    /\ pc' = "aborted"
    /\ err' = e

\* Where a run goes after the translation phase and after each unit: to
\* the next unit, or to its end after the last.
NextUnit == pc' = IF ui < Len(Units(page)) THEN "generate" ELSE "done"

(***************************************************************************)
(* Translation phase: translate_text, then replace_in_file for each token  *)
(* the translated text is written to.                                      *)
(***************************************************************************)
\* response.choices[0].message.content.strip().replace('"', '')
StripQuotes(text) == StrReplace(Strip(text), <<DQ>>, <<>>)

\* The generation phase entered after the first translation.
NoMoreTranslations == FALSE

\* A further translate_text statement follows the one at hand in
\* process_*_translations.
MoreTranslations == ti < Len(Translations(page))

\* A translate_text that returns the model's text as it came.
TranslateUnstripped(text, os) ==
    [exc |-> "none", calls |-> 1,
     val |-> IF os[1].ok THEN os[1].text ELSE <<text>>]

\* A translate_text that calls up to MaxRetries times and raises when every
\* call has raised.
TranslateRetrying(text, os) ==
    LET n == Min(MaxRetries, Len(os))
        oks == {i \in 1..n : os[i].ok}
        first == CHOOSE i \in oks : \A j \in oks : i <= j
    IN  IF oks = {}
        THEN [exc |-> "GenerationError", calls |-> n, val |-> <<>>]
        ELSE [exc |-> "none", calls |-> first,
              val |-> StripQuotes(os[first].text)]

\* What translate_text(text, target_language) returns, os being what the
\* successive calls of the completion endpoint would give: one call is
\* made, and when it raises the exception is caught and text returned.
TranslateReturn(text, os) ==
    [exc |-> "none", calls |-> 1,
     val |-> IF os[1].ok THEN StripQuotes(os[1].text) ELSE <<text>>]

translate_text ==
    /\ pc = "translate"
    /\ \E o \in Outcomes(TranslationCompletions) :
          translated' = TranslateReturn(Translations(page)[ti].text, <<o>>).val
    /\ pc' = "translated"
    /\ tk' = 1
    /\ UNCHANGED <<call, page, ti, ui, fi, attempt, round, prompt, result, parsed,
                   fixes, fs, file, err, pgLog, pgRaw, rounds, unitCalls,
                   fixLog, replaced>>

replace_translation ==
    /\ pc = "translated"
    /\ LET step == Translations(page)[ti]
           r == replace_in_file(page, file, fs, <<step.tokens[tk]>>,
                                JStr(translated))
       IN  /\ file' = r.file
           /\ IF r.exc # "none"
              THEN Abort(r.exc) /\ UNCHANGED <<ti, tk, ui>>
              ELSE /\ err' = err
                   /\ IF tk < Len(step.tokens)
                      THEN /\ tk' = tk + 1
                           /\ UNCHANGED <<pc, ti, ui>>
                      ELSE IF MoreTranslations
                      THEN /\ pc' = "translate"
                           /\ ti' = ti + 1
                           /\ UNCHANGED <<tk, ui>>
                      ELSE /\ NextUnit
                           /\ UNCHANGED <<ti, tk, ui>>
    /\ UNCHANGED <<call, page, fi, attempt, round, prompt, result, translated,
                   parsed, fixes, fs, pgLog, pgRaw, rounds, unitCalls,
                   fixLog, replaced>>

(***************************************************************************)
(* Generation phase, one unit at a time.                                   *)
(***************************************************************************)
UsesValidation(u) == u.gen = "generate_with_format_validation"

\* The unit's prompt is built and its generator is entered; on entry
\* generate_with_format_validation appends the structure instruction when
\* the expected format has a "<".
generate ==
    /\ pc = "generate"
    /\ ui' = ui + 1
    /\ LET u == UnitAt(ui + 1) IN
          prompt' = IF UsesValidation(u) /\ FormatHasLt(u.expected)
                    THEN <<u.name, StructureInstruction>>
                    ELSE <<u.name>>
    /\ attempt' = 0
    /\ round' = 0
    /\ result' = <<>>
    /\ parsed' = JFail
    /\ fixes' = 0
    /\ fi' = 1
    /\ UnitHistoryReset
    /\ pc' = "prompt_gpt"
    /\ UNCHANGED <<call, page, ti, tk, translated, fs, file, err>>

\* A loop that re-raises one iteration later.
IsAfterLastAttempt(a) == a = MaxRetries

\* The last iteration of prompt_gpt's loop re-raises the exception.
IsLastAttempt(a) == a = MaxRetries - 1

\* One iteration of prompt_gpt's loop: one call.
prompt_gpt ==
    /\ pc = "prompt_gpt"
    /\ \E o \in Outcomes(UnitCompletions(Unit)) :
          /\ pgLog' = Append(pgLog, IF o.ok THEN "ok" ELSE "err")
          /\ unitCalls' = unitCalls + 1
          /\ IF o.ok
             THEN /\ result' = Strip(o.text)
                  /\ pgRaw' = o.text
                  /\ attempt' = 0
                  /\ IF UsesValidation(Unit)
                     THEN pc' = "validate" /\ prompt' = prompt
                     ELSE pc' = "parse" /\ prompt' = <<>>
                  /\ err' = err
             ELSE /\ UNCHANGED <<result, pgRaw, prompt>>
                  /\ IF IsLastAttempt(attempt)
                     THEN Abort("GenerationError") /\ UNCHANGED attempt
                     ELSE /\ attempt' = attempt + 1
                          /\ UNCHANGED <<pc, err>>
    /\ UNCHANGED <<call, page, ti, tk, ui, fi, round, translated, parsed, fixes,
                   fs, file, rounds, fixLog, replaced>>

\* A retry with the prompt of the round before.
SamePrompt(p) == p

\* prompt += corrective instruction, after a result that did not validate.
NextPrompt(p) == Append(p, CorrectiveInstruction)

\* A loop of one round more.
IsAfterLastRound(r) == r = MaxRounds

\* A loop of two rounds more.
IsTwoAfterLastRound(r) == r = MaxRounds + 1

\* The last round of generate_with_format_validation's loop.
IsLastRound(r) == r = MaxRounds - 1

\* generate_with_format_validation after prompt_gpt has returned: the
\* result is returned when it validates, and after the last round;
\* otherwise the corrective instruction is appended to the prompt and
\* prompt_gpt is invoked again.
generate_with_format_validation ==
    /\ pc = "validate"
    /\ LET valid == validate_html_format(result, Unit.expected) IN
          /\ rounds' = Append(rounds,
                              [tags |-> CountTags(result), valid |-> valid])
          /\ IF valid \/ IsLastRound(round)
             THEN /\ pc' = "parse"
                  /\ round' = 0
                  /\ prompt' = <<>>
                  /\ pgLog' = pgLog
             ELSE /\ pc' = "prompt_gpt"
                  /\ round' = round + 1
                  /\ prompt' = NextPrompt(prompt)
                  /\ pgLog' = <<>>
    /\ UNCHANGED <<call, page, ti, tk, ui, fi, attempt, result, translated, parsed,
                   fixes, fs, file, err, pgRaw, unitCalls, fixLog, replaced>>

\* try: json.loads(clean_json_response(result)); a unit written from the
\* response text itself has no such step and its content is the result.
parse_response ==
    /\ pc = "parse"
    /\ IF Unit.shape = "json"
       THEN LET p == json_loads(clean_json_response(page, result)) IN
            /\ parsed' = p
            /\ pc' = IF p.t # "fail" THEN "replace" ELSE "fix"
       ELSE /\ parsed' = JStr(result)
            /\ pc' = "replace"
    /\ fi' = 1
    /\ UNCHANGED <<call, page, ti, tk, ui, attempt, round, prompt, result,
                   translated, fixes, fs, file, err, pgLog, pgRaw, rounds,
                   unitCalls, fixLog, replaced>>

\* Scripts that all raise json.loads's exception.
DecodeErrorOnly(pg) == "JSONDecodeError"

\* The exception a unit ends the run with when its last fix did not parse:
\* the product script raises its own, the others let json.loads's out.
ExhaustedError(pg) ==
    IF pg = "product" THEN "Failed to generate valid JSON after retries"
    ELSE "JSONDecodeError"

\* A script that makes no second fix call for any unit.
NoOtherFix(u, n) == FALSE

\* Whether the script, after n fix calls whose output did not parse, makes
\* another: the product script makes a second one, with the context label
\* suffixed "_retry"; the footer and home scripts have a single one.
HasAnotherFix(u, n) == n < Len(u.contexts)

\* A fix_json_with_gpt without its try: the exception of the call gets out.
FixUnguarded(pg, broken_json, o) ==
    IF o.ok
    THEN [exc |-> "none", calls |-> 1,
          val |-> clean_json_response(pg, Strip(o.text))]
    ELSE [exc |-> "GenerationError", calls |-> 1, val |-> <<>>]

\* A fix_json_with_gpt that makes its call again, up to MaxRetries times,
\* while it raises.
FixRetrying(pg, broken_json, o) ==
    IF o.ok
    THEN [exc |-> "none", calls |-> 1,
          val |-> clean_json_response(pg, Strip(o.text))]
    ELSE [exc |-> "none", calls |-> MaxRetries, val |-> broken_json]

\* What fix_json_with_gpt(broken_json, context) leaves when its one call
\* has outcome o: the cleaned stripped response, or broken_json when the
\* call raised; every exception is caught.  calls is the number of calls of
\* the completion endpoint made: the one in the try block.
FixReturn(pg, broken_json, o) ==
    IF o.ok
    THEN [exc |-> "none", calls |-> 1,
          val |-> clean_json_response(pg, Strip(o.text))]
    ELSE [exc |-> "none", calls |-> 1, val |-> broken_json]

\* A script that keeps the output of a fix call in result.
ResultOverwritten(raw, fixed) == fixed

\* The value of result after fixed_result = fix_json_with_gpt(result, ...):
\* the output goes to fixed_result and result keeps the generator's text,
\* which is what the next fix call is given.
ResultAfterFix(raw, fixed) == raw

\* except: fixed_result = fix_json_with_gpt(result, context);
\* json.loads(fixed_result).
fix_json_with_gpt ==
    /\ pc = "fix"
    /\ \E o \in Outcomes(UnitCompletions(Unit)) :
          LET r == FixReturn(page, result, o)
              fixed == r.val
              p == json_loads(fixed)
          IN  /\ parsed' = p
              /\ unitCalls' = unitCalls + r.calls
              /\ result' = ResultAfterFix(result, fixed)
              /\ IF p.t # "fail"
                 THEN pc' = "replace" /\ err' = err
                 ELSE IF HasAnotherFix(Unit, fixes + 1)
                 THEN pc' = "fix" /\ err' = err
                 ELSE Abort(ExhaustedError(page))
    /\ fixes' = fixes + 1
    /\ fixLog' = Append(fixLog, Unit.contexts[fixes + 1])
    /\ UNCHANGED <<call, page, ti, tk, ui, fi, attempt, round, prompt,
                   translated, fs, file, pgLog, pgRaw, rounds, replaced>>

\* The unit left after its first substitution.
NoMoreFields == FALSE

\* A further replace_in_file statement of the unit follows the one at hand.
MoreFields == fi < Len(Fields(Unit))

\* replace_in_file(PATH, token, parsed[key]...) for the unit's next field.
replace_field ==
    /\ pc = "replace"
    /\ LET f == Fields(Unit)[fi]
           sub == Subscript(parsed, f.key)
       IN  IF sub.exc # "none"
           THEN /\ Abort(sub.exc)
                /\ UNCHANGED <<ui, fi, file, replaced>>
           ELSE LET r == replace_in_file(page, file, fs, <<f.token>>, sub.val)
                IN  /\ file' = r.file
                    /\ replaced' = IF r.wrote THEN Append(replaced, f.token)
                                   ELSE replaced
                    /\ IF r.exc # "none"
                       THEN Abort(r.exc) /\ UNCHANGED <<ui, fi>>
                       ELSE /\ err' = err
                            /\ IF MoreFields
                               THEN /\ fi' = fi + 1
                                    /\ UNCHANGED <<pc, ui>>
                               ELSE /\ NextUnit
                                    /\ UNCHANGED <<ui, fi>>
    /\ UNCHANGED <<call, page, ti, tk, attempt, round, prompt, result, translated,
                   parsed, fixes, fs, pgLog, pgRaw, rounds, unitCalls,
                   fixLog>>

Next ==
    \/ translate_text
    \/ replace_translation
    \/ generate
    \/ prompt_gpt
    \/ generate_with_format_validation
    \/ parse_response
    \/ fix_json_with_gpt
    \/ replace_field

Spec == Init /\ [][Next]_vars

\* A run on a target document that lacks some of the tokens.
DriftInit ==
    /\ RunStart
    /\ file = Drifted(page)

DriftSpec == DriftInit /\ [][Next]_vars

(***************************************************************************)
(* replace_in_file called on its own, with any small file content, token   *)
(* and content.                                                            *)
(***************************************************************************)
MaxFileLen == 3
MaxTokenLen == 2
MaxContentLen == 2

Letters == {"a", "b"}

SeqsUpTo(S, n) == UNION {[1..k -> S] : k \in 0..n}

\* The variables of a run, at rest while a helper is called on its own.
RunAtRest ==
    /\ pc = "helper"
    /\ ti = 1
    /\ tk = 1
    /\ ui = 0
    /\ fi = 1
    /\ attempt = 0
    /\ round = 0
    /\ prompt = <<>>
    /\ result = <<>>
    /\ translated = <<>>
    /\ parsed = JFail
    /\ fixes = 0
    /\ err = "none"
    /\ pgLog = <<>>
    /\ pgRaw = <<>>
    /\ rounds = <<>>
    /\ unitCalls = 0
    /\ fixLog = <<>>
    /\ replaced = <<>>

SubInit ==
    /\ RunAtRest
    /\ page \in Pages
    /\ fs \in FileStates
    /\ file \in SeqsUpTo(Letters, MaxFileLen)
    /\ \E placeholder \in SeqsUpTo(Letters, MaxTokenLen) \ {<<>>},
          content \in SeqsUpTo(Letters, MaxContentLen) :
          call = [fn |-> "replace_in_file", prior |-> file,
                  placeholder |-> placeholder, content |-> content,
                  returned |-> FALSE, exc |-> "none"]

\* replace_in_file(file_path, placeholder, content)
call_replace_in_file ==
    /\ call.fn = "replace_in_file"
    /\ ~call.returned
    /\ LET r == replace_in_file(page, file, fs, call.placeholder,
                                JStr(call.content))
       IN  /\ file' = r.file
           /\ call' = [call EXCEPT !.returned = TRUE, !.exc = r.exc]
    /\ UNCHANGED <<page, pc, ti, tk, ui, fi, attempt, round, prompt, result,
                   translated, parsed, fixes, fs, err, pgLog, pgRaw, rounds,
                   unitCalls, fixLog, replaced>>

SubNext == call_replace_in_file

SubSpec == SubInit /\ [][SubNext]_vars

(***************************************************************************)
(* clean_json_response and fix_json_with_gpt called on their own, with any *)
(* short text of the characters their regular expressions and replace      *)
(* calls look at.                                                          *)
(***************************************************************************)
MaxTextLen == 4

LDQUO == "[ldquo]"
RSQUO == "[rsquo]"

TextLetters == {FENCE, "json", "\n", SQ, BSL, LDQUO, RSQUO, "x"}

Texts == SeqsUpTo(TextLetters, MaxTextLen)

\* The texts fix_json_with_gpt is given in the harness.
BrokenTexts == {BrokenJson, <<" ", "x", "\n">>}

FixInit ==
    /\ RunAtRest
    /\ page \in Pages
    /\ fs = "ok"
    /\ file = <<>>
    /\ \E b \in BrokenTexts :
          call = [fn |-> "fix_json_with_gpt", broken_json |-> b,
                  returned |-> FALSE, outcome |-> Raised, exc |-> "none",
                  calls |-> 0, val |-> <<>>]

\* fix_json_with_gpt(broken_json, context)
call_fix_json_with_gpt ==
    /\ call.fn = "fix_json_with_gpt"
    /\ ~call.returned
    /\ \E o \in Outcomes(Texts) :
          LET r == FixReturn(page, call.broken_json, o) IN
          call' = [call EXCEPT !.returned = TRUE, !.outcome = o,
                               !.exc = r.exc, !.calls = r.calls,
                               !.val = r.val]
    /\ UNCHANGED <<page, pc, ti, tk, ui, fi, attempt, round, prompt, result,
                   translated, parsed, fixes, fs, file, err, pgLog, pgRaw,
                   rounds, unitCalls, fixLog, replaced>>

FixNext == call_fix_json_with_gpt

FixSpec == FixInit /\ [][FixNext]_vars

\* The texts clean_html_response is given: the same, with its own tag.
HtmlLetters == (TextLetters \ {"json"}) \cup {"html"}

HtmlTexts == SeqsUpTo(HtmlLetters, MaxTextLen)

\* What the sanitizing function named fn returns for text in page pg.
Sanitize(fn, pg, text) ==
    IF fn = "clean_html_response"
    THEN clean_html_response(text)
    ELSE clean_json_response(pg, text)

SanInit ==
    /\ RunAtRest
    /\ fs = "ok"
    /\ file = <<>>
    /\ \/ /\ page \in Pages
          /\ \E t \in Texts :
                call = [fn |-> "clean_json_response", text |-> t,
                        returned |-> FALSE, val |-> <<>>]
       \/ /\ page = "home"
          /\ \E t \in HtmlTexts :
                call = [fn |-> "clean_html_response", text |-> t,
                        returned |-> FALSE, val |-> <<>>]

\* clean_json_response(response_text), clean_html_response(response_text)
call_sanitize ==
    /\ call.fn \in {"clean_json_response", "clean_html_response"}
    /\ ~call.returned
    /\ call' = [call EXCEPT !.returned = TRUE,
                            !.val = Sanitize(call.fn, page, call.text)]
    /\ UNCHANGED <<page, pc, ti, tk, ui, fi, attempt, round, prompt, result,
                   translated, parsed, fixes, fs, file, err, pgLog, pgRaw,
                   rounds, unitCalls, fixLog, replaced>>

SanNext == call_sanitize

SanSpec == SanInit /\ [][SanNext]_vars


(***************************************************************************)
(* One translation step on its own: translate_text, whatever the           *)
(* completion endpoint gives on this call and would give on later ones,    *)
(* then replace_in_file of the step's first token.                         *)
(***************************************************************************)
MaxTranslatedLen == 3

TranslatedLetters == {DQ, " ", "Einkaufen"}

TranslatedTexts == SeqsUpTo(TranslatedLetters, MaxTranslatedLen)

\* What a call after the first would give.
LaterOutcomes == {Raised, Returned(<<"Einkaufen">>)}

TrInit ==
    /\ RunAtRest
    /\ page \in Pages
    /\ fs = "ok"
    /\ file = Template(page)
    /\ \E j \in 1..Len(Translations(page)) :
       \E o1 \in Outcomes(TranslatedTexts), o2 \in LaterOutcomes,
          o3 \in LaterOutcomes :
          call = [fn |-> "translate_text", step |-> j,
                  text |-> Translations(page)[j].text,
                  token |-> Translations(page)[j].tokens[1],
                  outcomes |-> <<o1, o2, o3>>,
                  returned |-> FALSE, written |-> FALSE,
                  exc |-> "none", calls |-> 0, val |-> <<>>]

\* translated = translate_text(original, language)
call_translate_text ==
    /\ call.fn = "translate_text"
    /\ ~call.returned
    /\ LET r == TranslateReturn(call.text, call.outcomes) IN
          call' = [call EXCEPT !.returned = TRUE, !.exc = r.exc,
                               !.calls = r.calls, !.val = r.val]
    /\ UNCHANGED <<page, pc, ti, tk, ui, fi, attempt, round, prompt, result,
                   translated, parsed, fixes, fs, file, err, pgLog, pgRaw,
                   rounds, unitCalls, fixLog, replaced>>

\* replace_in_file(path, placeholder, translated)
call_replace_translated ==
    /\ call.fn = "translate_text"
    /\ call.returned
    /\ ~call.written
    /\ call.exc = "none"
    /\ file' = replace_in_file(page, file, fs, <<call.token>>,
                               JStr(call.val)).file
    /\ call' = [call EXCEPT !.written = TRUE]
    /\ UNCHANGED <<page, pc, ti, tk, ui, fi, attempt, round, prompt, result,
                   translated, parsed, fixes, fs, err, pgLog, pgRaw, rounds,
                   unitCalls, fixLog, replaced>>

TrNext == call_translate_text \/ call_replace_translated

TrSpec == TrInit /\ [][TrNext]_vars


(***************************************************************************)
(* Two replace_in_file calls with distinct catalog tokens on one file, as  *)
(* the newsletter unit makes them, the contents being any short texts,     *)
(* the tokens' own texts included.                                         *)
(***************************************************************************)
MaxDocLen == 3
MaxInsertLen == 1

HeadingToken == "NEW_NEWSLETTER_HEADING_GENERATED"
TextToken == "NEW_NEWSLETTER_TEXT_GENERATED"

DocLetters == {HeadingToken, TextToken, "x"}
InsertLetters == {HeadingToken, TextToken, "Titre"}

\* A replace_in_file that puts the content in place of either token.
AfterReplaceEither(pg, data, s) ==
    StrReplace(StrReplace(data, <<HeadingToken>>, s.content),
               <<TextToken>>, s.content)

\* The file after replace_in_file(path, s.placeholder, s.content).
AfterReplace(pg, data, s) ==
    replace_in_file(pg, data, "ok", <<s.placeholder>>, JStr(s.content)).file

PairInit ==
    /\ RunAtRest
    /\ page \in Pages
    /\ fs = "ok"
    /\ file \in SeqsUpTo(DocLetters, MaxDocLen)
    /\ \E c1 \in SeqsUpTo(InsertLetters, MaxInsertLen),
          c2 \in SeqsUpTo(InsertLetters, MaxInsertLen) :
          call = [fn |-> "replace_pair", prior |-> file, done |-> 0,
                  first |-> [placeholder |-> HeadingToken, content |-> c1],
                  second |-> [placeholder |-> TextToken, content |-> c2]]

\* replace_in_file(FOOTER_JSON_PATH, "NEW_NEWSLETTER_HEADING_GENERATED", ...)
call_replace_first ==
    /\ call.fn = "replace_pair"
    /\ call.done = 0
    /\ file' = AfterReplace(page, file, call.first)
    /\ call' = [call EXCEPT !.done = 1]
    /\ UNCHANGED <<page, pc, ti, tk, ui, fi, attempt, round, prompt, result,
                   translated, parsed, fixes, fs, err, pgLog, pgRaw, rounds,
                   unitCalls, fixLog, replaced>>

\* replace_in_file(FOOTER_JSON_PATH, "NEW_NEWSLETTER_TEXT_GENERATED", ...)
call_replace_second ==
    /\ call.fn = "replace_pair"
    /\ call.done = 1
    /\ file' = AfterReplace(page, file, call.second)
    /\ call' = [call EXCEPT !.done = 2]
    /\ UNCHANGED <<page, pc, ti, tk, ui, fi, attempt, round, prompt, result,
                   translated, parsed, fixes, fs, err, pgLog, pgRaw, rounds,
                   unitCalls, fixLog, replaced>>

PairNext == call_replace_first \/ call_replace_second

PairSpec == PairInit /\ [][PairNext]_vars

(***************************************************************************)
(* Two runs calling replace_in_file on the same file at the same time,     *)
(* each with its own token.  A call is two steps, the read of the whole    *)
(* file and the write of the whole file, and nothing orders the steps of   *)
(* one call with respect to those of the other.                            *)
(***************************************************************************)
Procs == {1, 2}

RaceInit ==
    /\ RunAtRest
    /\ page \in Pages
    /\ fs = "ok"
    /\ file \in SeqsUpTo(DocLetters, MaxDocLen)
    /\ call = [fn |-> "replace_race", prior |-> file, last |-> 0,
               at |-> [i \in Procs |-> "open"],
               data |-> [i \in Procs |-> <<>>],
               placeholder |-> [i \in Procs |->
                                  IF i = 1 THEN HeadingToken ELSE TextToken],
               content |-> [i \in Procs |->
                              IF i = 1 THEN <<"Titre">> ELSE <<"Souris">>]]

\* with open(file_path, 'r') as f: data = f.read()
race_read(i) ==
    /\ call.fn = "replace_race"
    /\ call.at[i] = "open"
    /\ call' = [call EXCEPT !.at[i] = "read", !.data[i] = file]
    /\ UNCHANGED <<page, pc, ti, tk, ui, fi, attempt, round, prompt, result,
                   translated, parsed, fixes, fs, file, err, pgLog, pgRaw,
                   rounds, unitCalls, fixLog, replaced>>

\* A replace_in_file whose write is made from the file as it is then.
race_write_fresh(i) ==
    /\ call.fn = "replace_race"
    /\ call.at[i] = "read"
    /\ LET r == replace_in_file(page, file, fs, <<call.placeholder[i]>>,
                                JStr(call.content[i]))
       IN  /\ file' = IF r.wrote THEN r.file ELSE file
           /\ call' = [call EXCEPT !.at[i] = "done",
                                   !.last = IF r.wrote THEN i ELSE @]
    /\ UNCHANGED <<page, pc, ti, tk, ui, fi, attempt, round, prompt, result,
                   translated, parsed, fixes, fs, err, pgLog, pgRaw, rounds,
                   unitCalls, fixLog, replaced>>

\* data = data.replace(placeholder, content);
\* with open(file_path, 'w') as f: f.write(data)
race_write(i) ==
    /\ call.fn = "replace_race"
    /\ call.at[i] = "read"
    /\ LET r == replace_in_file(page, call.data[i], fs,
                                <<call.placeholder[i]>>,
                                JStr(call.content[i]))
       IN  /\ file' = IF r.wrote THEN r.file ELSE file
           /\ call' = [call EXCEPT !.at[i] = "done",
                                   !.last = IF r.wrote THEN i ELSE @]
    /\ UNCHANGED <<page, pc, ti, tk, ui, fi, attempt, round, prompt, result,
                   translated, parsed, fixes, fs, err, pgLog, pgRaw, rounds,
                   unitCalls, fixLog, replaced>>

RaceNext == \E i \in Procs : race_read(i) \/ race_write(i)

RaceSpec == RaceInit /\ [][RaceNext]_vars

(***************************************************************************)
(* generate_with_format_validation called on its own, with reference       *)
(* examples of every kind: none, empty, without '<', with a '<' that opens *)
(* no tag, and with one or two tags.                                       *)
(***************************************************************************)
References ==
    {NoFormat, <<>>, <<"Text">>, <<"a", "<", "b">>,
     <<"<", "b", ">", "Text">>, <<"<", "b", ">", "Text", "<", "/b", ">">>}

GwInit ==
    /\ page \in Pages
    /\ pc = "generate"
    /\ ti = 1
    /\ tk = 1
    /\ ui = 0
    /\ fi = 1
    /\ attempt = 0
    /\ round = 0
    /\ prompt = <<>>
    /\ result = <<>>
    /\ translated = <<>>
    /\ parsed = JFail
    /\ fixes = 0
    /\ fs = "ok"
    /\ file = <<>>
    /\ err = "none"
    /\ pgLog = <<>>
    /\ pgRaw = <<>>
    /\ rounds = <<>>
    /\ unitCalls = 0
    /\ fixLog = <<>>
    /\ replaced = <<>>
    /\ \E e \in References :
          call = [fn |-> "generate_with_format_validation",
                  unit |-> [name |-> "prompt",
                            gen |-> "generate_with_format_validation",
                            shape |-> "text", expected |-> e,
                            contexts |-> <<>>, fields |-> <<>>]]

GwNext == generate \/ prompt_gpt \/ generate_with_format_validation

GwSpec == GwInit /\ [][GwNext]_vars

(***************************************************************************)
(* A processed file.  replace_in_file called twice with the same token and *)
(* content on any small file, and a page script run again on a file that   *)
(* holds none of its tokens, on either platform.                           *)
(***************************************************************************)
ProcessedFiles == {<<"Titre", LF, "Texte">>, <<"Titre", CRLF, "Texte">>}

AgainInit ==
    /\ RunAtRest
    /\ page \in Pages
    /\ fs \in FileStates
    /\ file \in SeqsUpTo(Letters, MaxFileLen)
    /\ \E placeholder \in SeqsUpTo(Letters, MaxTokenLen) \ {<<>>},
          content \in SeqsUpTo(Letters, MaxContentLen) :
          call = [fn |-> "replace_again", prior |-> file, first |-> <<>>,
                  done |-> 0, placeholder |-> placeholder,
                  content |-> content]

\* replace_in_file(file_path, placeholder, content), the first time
call_replace_once ==
    /\ call.fn = "replace_again"
    /\ call.done = 0
    /\ LET r == replace_in_file(page, file, fs, call.placeholder,
                                JStr(call.content))
       IN  /\ file' = r.file
           /\ call' = [call EXCEPT !.done = 1, !.first = r.file]
    /\ UNCHANGED <<page, pc, ti, tk, ui, fi, attempt, round, prompt, result,
                   translated, parsed, fixes, fs, err, pgLog, pgRaw, rounds,
                   unitCalls, fixLog, replaced>>

\* replace_in_file(file_path, placeholder, content), the second time
call_replace_again ==
    /\ call.fn = "replace_again"
    /\ call.done = 1
    /\ file' = replace_in_file(page, file, fs, call.placeholder,
                               JStr(call.content)).file
    /\ call' = [call EXCEPT !.done = 2]
    /\ UNCHANGED <<page, pc, ti, tk, ui, fi, attempt, round, prompt, result,
                   translated, parsed, fixes, fs, err, pgLog, pgRaw, rounds,
                   unitCalls, fixLog, replaced>>

AgainNext == call_replace_once \/ call_replace_again

\* The page script started on a file that holds none of its tokens.
RerunInit ==
    /\ RunPosition
    /\ file \in ProcessedFiles
    /\ \E sep \in {LF, CRLF} :
          call = [fn |-> "rerun", prior |-> file, linesep |-> sep]

ProcessedInit == AgainInit \/ RerunInit

ProcessedNext == AgainNext \/ Next

ProcessedSpec == ProcessedInit /\ [][ProcessedNext]_vars

(***************************************************************************)
(* Properties.                                                             *)
(***************************************************************************)
\* A content unit has been entered; the histories are those of unit ui.
JsonUnit == ui >= 1 /\ Unit.shape = "json"
GwfvUnit == ui >= 1 /\ UsesValidation(Unit)

\* The exceptions a unit ends the run with when its last fix did not parse.
ExhaustedErrors ==
    {"JSONDecodeError", "Failed to generate valid JSON after retries"}

\* The generator of the unit returned after a single call.
GeneratedInOneCall == Len(rounds) <= 1 /\ pgLog = <<"ok">>

\* Every field of the unit followed is in the parsed value.
AllFieldsPresent ==
    \A i \in 1..Len(Fields(Unit)) :
        Subscript(parsed, Fields(Unit)[i].key).exc = "none"

\* C1, as the claim states it: for every unit of JSON shape on any page, a
\* unit raises for unparsable output only after two fix calls, the second
\* with the context label of the first suffixed "_retry"; no unit aborts
\* after a single failed fix call.
C1_TwoStrikeEverywhere ==
    (JsonUnit /\ pc = "aborted" /\ err \in ExhaustedErrors) =>
        /\ Len(fixLog) = 2
        /\ fixLog[2] = fixLog[1] \o "_retry"

\* C1, amended: a fix call is made only after a parse failure; the product
\* script makes at most two for a unit, the second with the context label
\* of the first suffixed "_retry", and raises only when the outputs of both
\* fail to parse; the footer and home scripts make one and let the
\* exception of json.loads out when its output fails to parse; no unit
\* makes a third fix call.
C1_RecoveryPolicy ==
    JsonUnit =>
        /\ fixes = Len(fixLog)
        /\ Len(fixLog) <= (IF page = "product" THEN 2 ELSE 1)
        /\ (pc = "fix" => parsed.t = "fail")
        /\ (Len(fixLog) >= 1 => fixLog[1] = Unit.name)
        /\ (Len(fixLog) = 2 => fixLog[2] = fixLog[1] \o "_retry")
        /\ (pc = "aborted" /\ err \in ExhaustedErrors) =>
              /\ parsed.t = "fail"
              /\ Len(fixLog) = (IF page = "product" THEN 2 ELSE 1)
              /\ err = (IF page = "product"
                        THEN "Failed to generate valid JSON after retries"
                        ELSE "JSONDecodeError")

\* A product unit raises after two fix calls, the second labelled "_retry".
C1_Witness ==
    /\ page = "product"
    /\ JsonUnit
    /\ pc = "aborted"
    /\ err = "Failed to generate valid JSON after retries"
    /\ fixLog = <<Unit.name, Unit.name \o "_retry">>

\* C2: prompt_gpt makes at most 3 calls per invocation; it returns the
\* text (stripped of surrounding whitespace) of the first call that does not
\* raise, whatever the text, and makes no further call; it raises if and
\* only if all 3 calls raise.
C2_PromptGptRetries ==
    /\ Len(pgLog) <= 3
    /\ \A i \in 1..(Len(pgLog) - 1) : pgLog[i] = "err"
    /\ (pc = "prompt_gpt" => Len(pgLog) < 3 /\ attempt = Len(pgLog))
    /\ (pgLog # <<>> /\ pgLog[Len(pgLog)] = "ok") =>
          /\ pc # "prompt_gpt"
          /\ result = Strip(pgRaw)
    /\ (err = "GenerationError") <=> (pgLog = <<"err", "err", "err">>)
    /\ (err = "GenerationError") => pc = "aborted"

\* prompt_gpt returned the empty text of its third call after two raised.
C2_Witness ==
    /\ pc = "parse"
    /\ pgLog = <<"err", "err", "ok">>
    /\ result = <<>>

\* The occurrences of old in s that str.replace replaces, counted from i.
RECURSIVE CountOccurrences(_, _, _)
CountOccurrences(s, old, i) ==
    IF i > Len(s) THEN 0
    ELSE IF StartsAt(s, old, i)
         THEN 1 + CountOccurrences(s, old, i + Len(old))
         ELSE CountOccurrences(s, old, i + 1)

NoSharedLetter(a, b) ==
    \A i \in 1..Len(a) : \A j \in 1..Len(b) : a[i] # b[j]

ReplaceReturned == call.fn = "replace_in_file" /\ call.returned

C4_AllOrNothing ==
    (JsonUnit /\ replaced # <<>>) => AllFieldsPresent

\* C5, as the claim states it: a first response that parses but lacks a
\* declared field is sent to the fix step; no unit goes on from, or ends the
\* run with, a parsed object that lacks a field without a fix call made.
C5_MissingFieldRecovered ==
    (JsonUnit /\ fixLog = <<>> /\ parsed.t # "fail"
        /\ pc \in {"replace", "aborted"}) => AllFieldsPresent

\* The tokens of unit j of the page.
TokenSet(j) ==
    {Fields(Units(page)[j])[i].token : i \in 1..Len(Fields(Units(page)[j]))}

\* The unit ended the run because the text it had after its last fix call
\* did not parse.
UnitExhausted == JsonUnit /\ pc = "aborted" /\ err \in ExhaustedErrors

\* C6, as the claim states it: a unit whose generator call and fix calls
\* all return unparsable text ends the run after exactly three calls, two
\* of them fix calls, with none of its tokens replaced.
C6_ThreeCallsEverywhere ==
    (UnitExhausted /\ GeneratedInOneCall) =>
        /\ unitCalls = 3
        /\ Len(fixLog) = 2
        /\ replaced = <<>>

\* C6, amended: when the text of a unit does not parse after its last fix
\* call, the run ends with no token of the unit replaced and, the file
\* being accessible, every token of the units before it replaced: in the
\* product script after two fix calls, with the exception "Failed to
\* generate valid ... JSON after retries" (three calls when the generator
\* made one); in the footer and home scripts after one fix call, with the
\* exception of json.loads (two calls when the generator made one).
C6_TerminalFailure ==
    UnitExhausted =>
        /\ parsed.t = "fail"
        /\ replaced = <<>>
        /\ \A t \in TokenSet(ui) : Contains(file, <<t>>)
        /\ fs = "ok" =>
              \A j \in 1..(ui - 1) : \A t \in TokenSet(j) :
                  ~Contains(file, <<t>>)
        /\ IF page = "product"
           THEN /\ err = "Failed to generate valid JSON after retries"
                /\ Len(fixLog) = 2
                /\ (GeneratedInOneCall => unitCalls = 3)
           ELSE /\ err = "JSONDecodeError"
                /\ Len(fixLog) = 1
                /\ (GeneratedInOneCall => unitCalls = 2)

\* The second product unit ended the run after three calls, the tokens of
\* the first unit replaced.
C6_Witness ==
    /\ page = "product"
    /\ fs = "ok"
    /\ UnitExhausted
    /\ ui = 2
    /\ unitCalls = 3
    /\ \A t \in TokenSet(1) : ~Contains(file, <<t>>)

\* C7: when the first response of a unit is not valid JSON and the first
\* fix call returns valid JSON with all the fields, the tokens of the unit
\* are replaced by the values of the fixed object, and two calls have been
\* made for the unit.
C7_RecoveryPath ==
    (JsonUnit /\ GeneratedInOneCall /\ Len(fixLog) = 1 /\ AllFieldsPresent
        /\ pc \in {"replace", "generate", "done"}) =>
        /\ unitCalls = 2
        /\ json_loads(clean_json_response(page, result)).t = "fail"
        /\ (pc # "replace" /\ fs = "ok") =>
              /\ replaced = UnitTokens(Unit)
              /\ \A i \in 1..Len(Fields(Unit)) :
                    /\ ~Contains(file, <<Fields(Unit)[i].token>>)
                    /\ Contains(file,
                                Subscript(parsed, Fields(Unit)[i].key).val.v)

\* A footer unit was completed from the output of its one fix call.
C7_Witness ==
    /\ page = "footer"
    /\ fs = "ok"
    /\ JsonUnit
    /\ pc \in {"generate", "done"}
    /\ pgLog = <<"ok">>
    /\ fixLog = <<Unit.name>>
    /\ unitCalls = 2
    /\ replaced = UnitTokens(Unit)

\* The run is past its first replace_in_file call.
PastFirstReplace == ~(pc \in {"translate", "translated"} /\ ti = 1 /\ tk = 1)

GwfvReturned ==
    \/ pc \in {"parse", "fix", "replace", "generate", "done"}
    \/ pc = "aborted" /\ err # "GenerationError"

NoRoundValid == \A i \in 1..Len(rounds) : ~rounds[i].valid

\* C9: generate_with_format_validation invokes prompt_gpt at most 3 times;
\* when none of the 3 results passes the tag count check it returns the
\* result of the 3rd invocation, and it does not raise for it.
C9_AtMostThreeRounds ==
    GwfvUnit =>
        /\ Len(rounds) <= 3
        /\ (pc \in {"prompt_gpt", "validate"} =>
               Len(rounds) < 3 /\ round = Len(rounds))
        /\ (Len(rounds) = 3 /\ NoRoundValid) =>
              /\ GwfvReturned
              /\ result = Strip(pgRaw)
              /\ CountTags(result) = rounds[3].tags
              /\ (pc = "parse" => err = "none")

\* The third result failed the check too, and was returned.
C9_Witness ==
    /\ GwfvUnit
    /\ pc = "parse"
    /\ Len(rounds) = 3
    /\ NoRoundValid
    /\ err = "none"

\* C10: for an expected format with k >= 1 tags,
\* generate_with_format_validation returns after its 1st or 2nd invocation
\* of prompt_gpt only if the result of that invocation has at least k tags,
\* and no invocation is made after a result with k tags.
C10_StopsAtThreshold ==
    (GwfvUnit /\ ExpectedTags(Unit) >= 1) =>
        /\ \A i \in 1..(Len(rounds) - 1) :
              rounds[i].tags < ExpectedTags(Unit)
        /\ (pc \in {"prompt_gpt", "validate"} /\ rounds # <<>>) =>
              rounds[Len(rounds)].tags < ExpectedTags(Unit)
        /\ (GwfvReturned /\ Len(rounds) \in {1, 2}) =>
              /\ rounds[Len(rounds)].tags >= ExpectedTags(Unit)
              /\ CountTags(result) >= ExpectedTags(Unit)

\* The result of the second invocation reached the tag count and was
\* returned.
C10_Witness ==
    /\ GwfvUnit
    /\ ExpectedTags(Unit) >= 1
    /\ pc = "parse"
    /\ Len(rounds) = 2
    /\ rounds[1].tags < ExpectedTags(Unit)
    /\ rounds[2].tags >= ExpectedTags(Unit)

\* The token of the replace_in_file call the run is about to make.
TokenAtHand ==
    IF pc = "translated" THEN Translations(page)[ti].tokens[tk]
    ELSE Fields(Unit)[fi].token

\* The run is about to call replace_in_file with a token that is not in
\* the file, which can be read and written.
AbsentTokenCall ==
    /\ fs = "ok"
    /\ \/ pc = "translated"
       \/ pc = "replace" /\ Subscript(parsed, Fields(Unit)[fi].key).exc = "none"
    /\ ~Contains(file, <<TokenAtHand>>)

FixReturned == call.fn = "fix_json_with_gpt" /\ call.returned

\* C12: fix_json_with_gpt never raises; when its call raises it returns
\* the broken text it was given, unchanged; otherwise it returns the
\* cleaned text of the response.
C12_FixNeverRaises ==
    FixReturned =>
        /\ call.exc = "none"
        /\ (~call.outcome.ok => call.val = call.broken_json)
        /\ (call.outcome.ok =>
               call.val = clean_json_response(page, call.outcome.text))

\* The call raised and the broken text, whitespace included, came back.
C12_Witness ==
    /\ FixReturned
    /\ ~call.outcome.ok
    /\ call.broken_json = <<" ", "x", "\n">>
    /\ call.val = <<" ", "x", "\n">>

\* C13: when prompt_gpt fails on all its attempts for a content unit, the
\* error ends the run: no token of that unit or of a later unit is
\* replaced, no later unit is started, and the tokens the earlier units
\* replaced stay replaced.
C13_GenerationErrorAborts ==
    (err = "GenerationError") =>
        /\ pc = "aborted"
        /\ ui >= 1
        /\ replaced = <<>>
        /\ \A j \in ui..Len(Units(page)) : \A t \in TokenSet(j) :
              Contains(file, <<t>>)
        /\ fs = "ok" =>
              \A j \in 1..(ui - 1) : \A t \in TokenSet(j) :
                  ~Contains(file, <<t>>)

\* The second unit of the home run failed after the first was written.
C13_Witness ==
    /\ page = "home"
    /\ fs = "ok"
    /\ err = "GenerationError"
    /\ pc = "aborted"
    /\ ui = 2
    /\ ~Contains(file, <<"NEW_HERO_HEADING_GENERATED">>)
    /\ Contains(file, <<"NEW_HERO_SUBHEADING_GENERATED">>)

\* A sanitizing function called on its own has returned.
SanReturned ==
    /\ call.fn \in {"clean_json_response", "clean_html_response"}
    /\ call.returned

\* C14: clean_json_response is idempotent in each of the three page
\* scripts: applied to its own result it returns that result unchanged.
C14_Idempotent ==
    (SanReturned /\ call.fn = "clean_json_response")
        => clean_json_response(page, call.val) = call.val

\* The input of C14's divergence: a text that ends in two fences gives up
\* only the last one, and the call on the result removes the other.
C14_TwoFences ==
    /\ SanReturned
    /\ call.fn = "clean_json_response"
    /\ call.text = <<"x", FENCE, "\n", FENCE>>
    /\ call.val = <<"x", FENCE>>
    /\ clean_json_response(page, call.val) = <<"x">>

\* The text s without a fence at its start, together with the language tag
\* that follows the fence when there is one.
DropStartFence(s) ==
    IF s # <<>> /\ s[1] = FENCE
    THEN IF Len(s) >= 2 /\ s[2] \in {"json", "html"}
         THEN SubSeq(s, 3, Len(s))
         ELSE SubSeq(s, 2, Len(s))
    ELSE s

\* The text s without a fence at its end.
DropEndFence(s) ==
    IF s # <<>> /\ s[Len(s)] = FENCE
    THEN SubSeq(s, 1, Len(s) - 1)
    ELSE s

\* The text with the fence at its start and the fence at its end taken
\* away, nothing between them changed, and the result trimmed.
Unfenced(text) == Strip(DropEndFence(DropStartFence(Strip(text))))

\* C15: the sanitizing functions of the home page script return the text
\* without a fence, tagged or not, at its start and at its end, with
\* nothing between them changed and the result trimmed.
C15_FencesRemoved ==
    (SanReturned /\ page = "home") => call.val = Unfenced(call.text)

\* The input of C15's divergence: the fence without a language tag that
\* opens the text is still there in what clean_json_response returns.
C15_UntaggedFenceKept ==
    /\ SanReturned
    /\ page = "home"
    /\ call.fn = "clean_json_response"
    /\ call.text = <<FENCE, "\n", "x", FENCE>>
    /\ call.val = <<FENCE, "\n", "x">>

\* C16: what clean_json_response returns holds no typographic double
\* quotation mark and no typographic apostrophe: it is what the function
\* returns for the text with each of them replaced by its ASCII equivalent.
C16_NoCurlyQuotes ==
    (SanReturned /\ call.fn = "clean_json_response")
        => /\ \A i \in 1..Len(call.val) : call.val[i] \notin {LDQUO, RSQUO}
           /\ call.val = clean_json_response(page,
                  StrReplace(StrReplace(call.text, <<LDQUO>>, <<DQ>>),
                             <<RSQUO>>, <<SQ>>))

\* The input of C16's divergence: the typographic marks come back as they
\* went in.
C16_CurlyQuotesKept ==
    /\ SanReturned
    /\ call.fn = "clean_json_response"
    /\ call.text = <<LDQUO, "x", RSQUO>>
    /\ call.val = <<LDQUO, "x", RSQUO>>

\* Every translation substitution of the run has been made: the last token
\* of the last translation has had its replace_in_file call, and with an
\* accessible file no translation token is left in it.
TranslationPhaseOver ==
    /\ pc \notin {"translate", "translated"}
    /\ ti = Len(Translations(page))
    /\ tk = Len(Translations(page)[ti].tokens)
    /\ fs = "ok" =>
          \A j \in 1..Len(Translations(page)) :
             \A k \in 1..Len(Translations(page)[j].tokens) :
                ~Contains(file, <<Translations(page)[j].tokens[k]>>)

\* The generation phase has begun: a unit has been entered.
GenerationBegun == ui >= 1

\* C17: the translation phase completes before the generation phase
\* begins.  A step that enters a unit, issues a generation-phase call or
\* substitutes a generated-content token is taken after the last
\* translation substitution, and no translation step follows it.
C17_TranslationBeforeGeneration ==
    [][/\ (ui' # ui \/ unitCalls' # unitCalls \/ replaced' # replaced
              \/ pgLog' # pgLog \/ fixLog' # fixLog)
          => TranslationPhaseOver
       /\ GenerationBegun
          => /\ pc' \notin {"translate", "translated"}
             /\ ti' = ti /\ tk' = tk /\ translated' = translated]_vars

\* A generated-content token has been substituted in a run that made
\* translation substitutions before.
C17_Witness ==
    /\ GenerationBegun
    /\ fs = "ok"
    /\ replaced # <<>>
    /\ TranslationPhaseOver
    /\ Contains(file, translated)

\* Every substitution of the units before unit n has been made: with an
\* accessible file none of their tokens is left in it.
UnitsWrittenBefore(n) ==
    fs = "ok" =>
       \A j \in 1..(n - 1) : \A tok \in TokenSet(j) : ~Contains(file, <<tok>>)

\* C18: content units are processed in their declared order and one at a
\* time, and the fields of a unit are substituted in field-declaration
\* order.  The unit entered is the next of the catalog and is entered after
\* the last substitution of the one before; every call of a unit is issued
\* with the units before it written; the tokens a unit has substituted are
\* the first of its declared tokens, in that order (for the footer
\* newsletter unit, the heading token first).
C18_DeclaredOrder ==
    [][/\ ui' # ui
          => /\ ui' = ui + 1
             /\ ui >= 1 => fi = Len(Fields(Unit))
             /\ UnitsWrittenBefore(ui + 1)
       /\ (pgLog' # pgLog \/ fixLog' # fixLog \/ unitCalls' # unitCalls)
          => UnitsWrittenBefore(ui')
       /\ (ui' >= 1 /\ ui' = ui /\ replaced' # replaced)
          => /\ Len(replaced) < Len(UnitTokens(Unit))
             /\ replaced' = Append(replaced,
                                   UnitTokens(Unit)[Len(replaced) + 1])
       /\ (page = "footer" /\ ui' >= 1 /\ replaced' # <<>>
             /\ Units(page)[ui'].name = "newsletter")
          => replaced'[1] = "NEW_NEWSLETTER_HEADING_GENERATED"]_vars

\* The footer newsletter unit has substituted its heading token and then
\* its text token, the two units before it written.
C18_Witness ==
    /\ page = "footer"
    /\ ui = 3
    /\ Unit.name = "newsletter"
    /\ replaced = <<"NEW_NEWSLETTER_HEADING_GENERATED",
                    "NEW_NEWSLETTER_TEXT_GENERATED">>
    /\ \A tok \in TokenSet(1) \cup TokenSet(2) \cup TokenSet(3) :
          ~Contains(file, <<tok>>)

\* translate_text called on its own has returned.
TranslateReturned == call.fn = "translate_text" /\ call.returned

\* The text t without the double quotes that wrap it.
Unwrapped(t) ==
    IF Len(t) >= 2 /\ t[1] = DQ /\ t[Len(t)] = DQ
    THEN SubSeq(t, 2, Len(t) - 1)
    ELSE t

\* The file of the step with its token replaced by text t.
TokenReplacedBy(t) == StrReplace(Template(page), <<call.token>>, t)

\* C19 as stated: the token is replaced with the translated text the model
\* returned, its wrapping double quotes removed and the rest of it
\* unchanged.
C19_WrappingQuotesOnly ==
    (TranslateReturned /\ call.outcomes[1].ok)
        => /\ call.val = Unwrapped(Strip(call.outcomes[1].text))
           /\ call.written => file = TokenReplacedBy(call.val)

\* C19, amended: the token is replaced with the text the model returned,
\* trimmed, with every double quote taken out of it, those inside the text
\* as well as those that wrap it; nothing else of it is changed.
C19_EveryDoubleQuoteRemoved ==
    (TranslateReturned /\ call.outcomes[1].ok)
        => /\ call.val = SelectSeq(Strip(call.outcomes[1].text),
                                   LAMBDA c : c # DQ)
           /\ \A i \in 1..Len(call.val) : call.val[i] # DQ
           /\ call.written
                 => /\ file = TokenReplacedBy(call.val)
                    /\ ~Contains(file, <<call.token>>)

\* The model returned the translation wrapped in double quotes and the
\* token has been replaced with the bare translation.
C19_Witness ==
    /\ TranslateReturned
    /\ call.written
    /\ call.outcomes[1] = Returned(<<DQ, "Einkaufen", DQ>>)
    /\ call.val = <<"Einkaufen">>
    /\ Contains(file, <<"Einkaufen">>)
    /\ ~Contains(file, <<call.token>>)

\* C20 as stated: a translation call that raises is made again, up to the
\* three attempts of the client, and when every attempt raises the failure
\* propagates and the token is not replaced with the untranslated text.
C20_TranslationRetriesThenAborts ==
    TranslateReturned
        => /\ (~call.outcomes[1].ok /\ call.outcomes[2].ok)
                 => /\ call.calls = 2
                    /\ call.val = StripQuotes(call.outcomes[2].text)
           /\ (\A i \in 1..MaxRetries : ~call.outcomes[i].ok)
                 => /\ call.exc = "GenerationError"
                    /\ file = Template(page)

\* C20, amended: a translation step makes one call of the completion
\* endpoint and never raises.  When that call raises, whatever a further
\* call would give, translate_text returns the text it was given and the
\* step goes on to replace the token with that untranslated text.
C20_TranslationFallback ==
    TranslateReturned
        => /\ call.exc = "none"
           /\ call.calls = 1
           /\ ~call.outcomes[1].ok
                 => /\ call.val = <<call.text>>
                    /\ call.written
                          => /\ file = TokenReplacedBy(<<call.text>>)
                             /\ ~Contains(file, <<call.token>>)

\* The call raised, a second call would have returned the translation, and
\* the token has been replaced with the text that was to be translated.
C20_Witness ==
    /\ TranslateReturned
    /\ call.written
    /\ ~call.outcomes[1].ok
    /\ call.outcomes[2].ok
    /\ page = "footer"
    /\ call.text = "Information"
    /\ Contains(file, <<"Information">>)
    /\ ~Contains(file, <<call.token>>)

\* The unit at hand is written from the response text itself.
TextUnit == ui >= 1 /\ Unit.shape = "text"

\* C21: for a unit of plain-text or markup shape no JSON parse and no
\* recovery call is made, and what is written at the unit's token is the
\* sanitized form of the generated text, fences removed and whitespace
\* trimmed, not the raw response.
C21_TextUnitSanitized ==
    TextUnit
        => /\ fixLog = <<>>
           /\ fixes = 0
           /\ pc = "replace"
                 => parsed = JStr(clean_json_response(page, pgRaw))
           /\ (fs = "ok" /\ replaced # <<>>)
                 => /\ Contains(file, clean_json_response(page, pgRaw))
                    /\ ~Contains(file, <<FENCE>>)

\* The input of C21's divergence: the response of a text unit came fenced
\* and the token has been replaced with the fences and the text.
C21_FencedTextWritten ==
    /\ page = "home"
    /\ TextUnit
    /\ Unit.name = "hero_heading"
    /\ pgRaw = Fenced(Tagged(0))
    /\ replaced = <<"NEW_HERO_HEADING_GENERATED">>
    /\ Contains(file, Fenced(Tagged(0)))
    /\ fixLog = <<>>

\* C22: one invocation of fix_json_with_gpt makes exactly one call of the
\* external capability, and when that call raises it returns the broken
\* text unchanged at once.
C22_OneCallPerFix ==
    FixReturned
        => /\ call.calls = 1
           /\ ~call.outcome.ok
                 => /\ call.exc = "none"
                    /\ call.val = call.broken_json

\* The one call of a fix raised and the broken text came back as given.
C22_Witness ==
    /\ FixReturned
    /\ call.calls = 1
    /\ call.outcome = Raised
    /\ call.broken_json = BrokenJson
    /\ call.val = BrokenJson

\* Both replace_in_file calls of the pair have returned.
PairDone == call.fn = "replace_pair" /\ call.done = 2

\* The file the same two calls leave when made in the other order.
OtherOrder ==
    AfterReplace(page, AfterReplace(page, call.prior, call.second),
                 call.first)

\* Neither content holds the token of the other substitution.
ContentsTokenFree ==
    /\ ~Contains(call.first.content, <<call.second.placeholder>>)
    /\ ~Contains(call.second.content, <<call.first.placeholder>>)

C23_OrderMatters ==
    /\ PairDone
    /\ call.first.content = <<TextToken>>
    /\ call.second.content = <<"Titre">>
    /\ call.prior = <<HeadingToken>>
    /\ file = <<"Titre">>
    /\ OtherOrder = <<TextToken>>

\* The two concurrent calls are over, and a write has been made.
RaceDone ==
    /\ call.fn = "replace_race"
    /\ \A i \in Procs : call.at[i] = "done"

\* C24: when two replace_in_file calls on the same file interleave their
\* read and write steps, the file is what the call that wrote last made of
\* its own read, so the substitution of the other call can be lost: there
\* is no lock and the read-then-write is not atomic.
C24_LastWriteWins ==
    (call.fn = "replace_race" /\ call.last # 0)
        => /\ file = StrReplace(call.data[call.last],
                                <<call.placeholder[call.last]>>,
                                call.content[call.last])
           /\ (RaceDone /\ \A i \in Procs : call.data[i] = call.prior)
                 => \A i \in Procs \ {call.last} :
                       Contains(call.prior, <<call.placeholder[i]>>)
                          => /\ Contains(file, <<call.placeholder[i]>>)
                             /\ ~Contains(file, call.content[i])

\* Both calls read the file before either wrote: the heading written by
\* the first call is gone, its token back in the file the second wrote.
C24_Witness ==
    /\ RaceDone
    /\ call.prior = <<HeadingToken, "x", TextToken>>
    /\ call.data[1] = call.prior
    /\ call.data[2] = call.prior
    /\ call.last = 2
    /\ file = <<HeadingToken, "x", "Souris">>

\* generate_with_format_validation called on its own is under way or over.
GwCall == call.fn = "generate_with_format_validation" /\ ui = 1

\* The reference example yields no markup tag: there is none, or it holds
\* no '<', or a '<' that opens no complete tag.
ZeroTagReference ==
    ~FormatHasLt(Unit.expected) \/ CountTags(Unit.expected) = 0

\* The prompt generate_with_format_validation starts from: the caller's,
\* with the structure instruction when the reference holds a '<'.
FirstPrompt ==
    <<Unit.name>> \o (IF Contains(Unit.expected, <<"<">>)
                      THEN <<StructureInstruction>> ELSE <<>>)

\* C25: when the reference example yields zero markup tags,
\* generate_with_format_validation accepts the first result: it invokes
\* prompt_gpt once and returns what that returned, whatever it is; the
\* structure instruction is in the prompt exactly when the reference holds
\* a '<'.
C25_ZeroTagsAcceptFirst ==
    GwCall
        => /\ (pc = "prompt_gpt" /\ round = 0) => prompt = FirstPrompt
           /\ ZeroTagReference
                 => /\ round = 0
                    /\ Len(rounds) <= 1
                    /\ pc = "parse"
                          => /\ Len(rounds) = 1
                             /\ rounds[1].valid
                             /\ result = Strip(pgRaw)
                             /\ unitCalls = Len(pgLog)
                             /\ pgLog[Len(pgLog)] = "ok"
                             /\ \A i \in 1..(Len(pgLog) - 1) : pgLog[i] = "err"

\* The reference holds a '<' that opens no tag, the structure instruction
\* was given, and the empty text of the first invocation has been returned.
C25_Witness ==
    /\ GwCall
    /\ Unit.expected = <<"a", "<", "b">>
    /\ pc = "parse"
    /\ Len(rounds) = 1
    /\ pgRaw = <<>>
    /\ result = <<>>
    /\ unitCalls = 1

\* n copies of the corrective instruction.
Correctives(n) == [i \in 1..n |-> CorrectiveInstruction]

\* C26: in generate_with_format_validation the prompt only grows.  The
\* prompt of round i (i = 1..3) is the caller's prompt, then the structure
\* instruction once when the reference holds a '<', then i-1 corrective
\* instructions; a corrective instruction is appended only after a result
\* that failed validation.
C26_PromptOnlyGrows ==
    [][GwCall
         => /\ pc \in {"prompt_gpt", "validate"}
                  => /\ round \in 0..(MaxRounds - 1)
                     /\ prompt = FirstPrompt \o Correctives(round)
            /\ pc = "prompt_gpt"
                  => /\ Len(rounds) = round
                     /\ \A i \in 1..Len(rounds) : ~rounds[i].valid
            /\ (pc' \in {"prompt_gpt", "validate"} /\ prompt' # prompt)
                  => /\ prompt' = Append(prompt, CorrectiveInstruction)
                     /\ pc = "validate"
                     /\ ~validate_html_format(result, Unit.expected)]_vars

\* The third round is about to be invoked: two results failed validation
\* and the prompt ends in two corrective instructions.
C26_Witness ==
    /\ GwCall
    /\ pc = "prompt_gpt"
    /\ round = 2
    /\ Unit.expected = <<"<", "b", ">", "Text", "<", "/b", ">">>
    /\ prompt = <<"prompt", StructureInstruction, CorrectiveInstruction,
                  CorrectiveInstruction>>

\* The most calls of the external capability one invocation of
\* generate_with_format_validation can make.
MaxGwCalls == MaxRounds * MaxRetries

\* C27: when prompt_gpt raises in any round of
\* generate_with_format_validation, the error is raised at once: no other
\* round is started and no result of an earlier round is returned; one
\* invocation makes at most 9 calls of the external capability.
C27_RoundErrorRaises ==
    [][GwCall
         => /\ unitCalls' <= MaxGwCalls
            /\ (/\ pc = "prompt_gpt"
                /\ Len(pgLog') = MaxRetries
                /\ \A i \in 1..MaxRetries : pgLog'[i] = "err")
                  => /\ pc' = "aborted"
                     /\ err' = "GenerationError"
                     /\ round' = round
                     /\ rounds' = rounds
            /\ pc # "aborted"
            /\ err = "none"]_vars

\* The third round's invocation raised after two rounds whose results did
\* not validate: nine calls were made and the error ended the invocation.
C27_Witness ==
    /\ GwCall
    /\ pc = "aborted"
    /\ err = "GenerationError"
    /\ round = 2
    /\ Len(rounds) = 2
    /\ unitCalls = 9

\* C28: on the product page both fix calls of a unit are given the same
\* input, the text the generation step returned, not sanitized; the second
\* differs from the first in its context label only and is never given the
\* output of the first.
C28_SameInputBothFixes ==
    [][(page = "product" /\ ui >= 1 /\ pc = "fix")
         => /\ result = Strip(pgRaw)
            /\ result' = result
            /\ pgRaw' = pgRaw
            /\ fixLog' = Append(fixLog, IF fixLog = <<>> THEN Unit.name
                                        ELSE Unit.name \o "_retry")
            /\ Len(fixLog') <= 2
            /\ \E o \in Outcomes(UnitCompletions(Unit)) :
                  parsed' = json_loads(
                      IF o.ok THEN clean_json_response(page, Strip(o.text))
                      ELSE Strip(pgRaw))]_vars

\* The second fix call of a product unit has returned a text that parses,
\* the generator's unparsable text still in result.
C28_Witness ==
    /\ page = "product"
    /\ ui >= 1
    /\ pc = "replace"
    /\ fixLog = <<Unit.name, Unit.name \o "_retry">>
    /\ result = BrokenJson
    /\ result = Strip(pgRaw)
    /\ parsed.t # "fail"

\* The run is over: it went through its last unit, or an exception ended
\* it.
Terminated == pc \in {"done", "aborted"}

\* The most calls of the external capability a unit can make: the rounds
\* of a validated generation, each of at most MaxRetries attempts, and two
\* fix calls.
MaxUnitCalls == MaxRounds * MaxRetries + 2

\* The steps the translations from the j-th on can take: one call and one
\* substitution for each token.
RECURSIVE TranslationSteps(_)
TranslationSteps(j) ==
    IF j > Len(Translations(page)) THEN 0
    ELSE 1 + Len(Translations(page)[j].tokens) + TranslationSteps(j + 1)

\* More than the steps one unit can take.
UnitSteps == MaxRounds * (MaxRetries + 2) + MaxFields + 6

\* The steps the unit at hand can still take.
StepsLeftInUnit ==
    IF pc = "prompt_gpt"
    THEN (MaxRounds - round) * (MaxRetries + 2) - attempt + MaxFields + 5
    ELSE IF pc = "validate"
    THEN (MaxRounds - 1 - round) * (MaxRetries + 2) + MaxFields + 6
    ELSE IF pc = "parse" THEN MaxFields + 4
    ELSE IF pc = "fix" THEN MaxFields + 3 - fixes
    ELSE IF pc = "replace" THEN Len(Fields(Unit)) - fi + 1
    ELSE 0

\* A bound on the steps the run can still take.
StepsLeft ==
    IF Terminated THEN 0
    ELSE IF pc = "translate"
    THEN TranslationSteps(ti) + Len(Units(page)) * UnitSteps
    ELSE IF pc = "translated"
    THEN Len(Translations(page)[ti].tokens) - tk + 1
            + TranslationSteps(ti + 1) + Len(Units(page)) * UnitSteps
    ELSE (Len(Units(page)) - ui) * UnitSteps + StepsLeftInUnit

\* C29: every page run terminates when each call of the external
\* capability and each file operation returns or raises.  The lists of
\* translations and units are finite and every loop is bounded: each step
\* of the run lowers a bound on the steps left, which is a natural number,
\* and the external calls of a unit never exceed the rounds times the
\* attempts plus the two fix calls.  So a run that keeps taking steps, as
\* it does when every call returns or raises, reaches its end.
C29_RunTerminates ==
    /\ [][/\ StepsLeft \in Nat
          /\ StepsLeft' \in Nat
          /\ StepsLeft' < StepsLeft
          /\ ti' <= Len(Translations(page))
          /\ ui' <= Len(Units(page))
          /\ attempt' < MaxRetries
          /\ round' < MaxRounds
          /\ fixes' <= 2
          /\ unitCalls' <= MaxUnitCalls]_vars
    /\ ([]<><<TRUE>>_vars => <>Terminated)

\* A product run is over after a last unit that took every call it can:
\* three rounds of three attempts and two fix calls.
C29_Witness ==
    /\ page = "product"
    /\ pc = "done"
    /\ ui = Len(Units(page))
    /\ Len(rounds) = MaxRounds
    /\ Len(fixLog) = 2
    /\ unitCalls = MaxUnitCalls

\* replace_in_file has been called twice with the same token and content.
CalledAgain == call.fn = "replace_again" /\ call.done = 2

\* The page script runs on a file that held none of its tokens.
Rerun == call.fn = "rerun"

\* The file as text mode hands it back: read, and written with the
\* platform's line ending.
Rewritten(bytes) == WriteText(ReadText(bytes))

C30_RerunWitness ==
    /\ Rerun
    /\ page = "footer"
    /\ pc = "done"
    /\ LineSep = LF
    /\ call.prior = <<"Titre", CRLF, "Texte">>
    /\ file = <<"Titre", LF, "Texte">>

=============================================================================
